---- MODULE Spec2Model ----
(***************************************************************************)
(* A model of gurre/s3streamer: the multipart upload writer (S3Writer,     *)
(* s3writer.go) and the range reader (ChunkStreamer).  Each public method  *)
(* is a pure operator over the receiver's fields, translated statement by  *)
(* statement; each action applies one method call.  The backing store is   *)
(* the log of the requests it received together with the answer it gave.   *)
(***************************************************************************)
EXTENDS Integers, Sequences, FiniteSets, TLC

\* ------------------------------------------------------------------ bounds
\* The store's minimum part size (5 MiB in NewS3Writer), scaled to bytes the
\* model can enumerate; part sizes range over MinPartSize..MaxPartSize.
MinPartSize == 2
MaxPartSize == 3
\* The part-count ceiling (10000 in uploadPart), scaled so that it is reached.
MaxParts == 4
\* Longest slice handed to one Write call.
MaxWriteLen == 3
\* Number of method calls made on one writer.
MaxCalls == 4
\* Length of the stored object, largest chunk size and destination buffer.
ObjLen == 4
MaxChunk == 3
MaxDest == 2
\* Number of Read calls made on one reader.
MaxReads == 6
\* Number of range fetches the store fails during one run.
MaxFetchFailures == 1
\* Goroutines that share one ChunkStreamer, and the Read calls they make
\* between them.
NumCallers == 2
MaxSharedReads == 3
\* The calls several goroutines make between them on one shared S3Writer.
MaxSharedCalls == 3
\* CompressedS3Writer: the calls made on it, the bytes written through it,
\* and the store requests one of its calls can see fail.
MaxCwCalls == 3
MaxCwInput == 2
MaxCwRequests == 2
\* One writer and one reader in the same run: the calls made on the two.
MaxCoreCalls == 2
\* DetectCompression: the longest byte sequence handed to it.
MaxSourceLen == 3

\* ------------------------------------------------------------------ state
VARIABLES
    \* S3Writer
    partSize, uploadID, buffer, partNumber, parts, closed, err,
    ctxDone,      \* whether the writer's context has been cancelled
    requests,     \* the multipart requests the store received, in order
    hist,         \* the calls made on the writer and what each returned
    \* ChunkStreamer
    offset, size, chunkSize, currentOffset, eof, csBuffer,
    fetches,      \* the range requests the store received, in order
    reads,        \* the Read calls made and what each returned
    mu,           \* c.mu: the caller that holds it, or Unlocked
    pc,           \* where each caller stands in its Read call
    local,        \* each caller's p, its locals and the bytes it was given
    \* S3Writer, shared
    wmu,          \* w.mu: the caller that holds it, or Unlocked
    wpc,          \* where each caller stands in its call on the writer
    wlocal,       \* each caller's call: the method, its argument, its results
    \* CompressedS3Writer
    compressionType,
    compressor,   \* the gzip / bzip2 writer's state, unused when Uncompressed
    cwhist,       \* the calls made on the compressed writer and their returns
    \* DetectCompression
    given,        \* the bytes handed to DetectCompression
    detected,     \* what it classified them as, "none" before the call
    \* NewS3Writer
    args,         \* the arguments of the constructor call
    made          \* what the constructor returned and the store calls it made

wvars == <<partSize, uploadID, buffer, partNumber, parts, closed, err,
           ctxDone, requests, hist>>
rvars == <<offset, size, chunkSize, currentOffset, eof, csBuffer, fetches, reads,
           mu, pc, local>>
cwvars == <<compressionType, compressor, cwhist>>
xvars == <<wmu, wpc, wlocal, compressionType, compressor, cwhist>>
fvars == <<given, detected, args, made>>
vars == <<wvars, rvars, xvars, fvars>>

\* ------------------------------------------------------------------ errors
\* An error value: what it says, the part number its text carries, and the
\* call that created it (two errors with the same text made by different
\* calls are different error values; context.Canceled is one shared value).
Err(kind, part, id) == [kind |-> kind, part |-> part, id |-> id]
Nil == Err("nil", 0, 0)
Canceled == Err("canceled", 0, 0)

min(a, b) == IF a < b THEN a ELSE b
\* The element of a one-element set.
The(S) == CHOOSE x \in S : TRUE

\* ------------------------------------------------------------------ store
\* What the store answers to one request: success, a transport error, or
\* (UploadPart only) a success response that carries no entity tag.
Outcomes == {"ok", "error", "noETag"}
NoETag == <<>>
\* The entity tag the store gives to the request it logs at position i.
ETagOf(i) == <<i>>
\* A call is given the answers the store will make to its successive
\* requests; a request past the end of the schedule succeeds.
Response(outs) == IF outs = <<>> THEN "ok" ELSE Head(outs)
Rest(outs) == IF outs = <<>> THEN <<>> ELSE Tail(outs)

NoUpload == "none"

\* The writer's mutable fields and the store's log, as one value.
W == [buffer |-> buffer, partNumber |-> partNumber, parts |-> parts,
      closed |-> closed, err |-> err, requests |-> requests]

\* A request as the store logs it.  outcome is the answer the store gave.
UploadPartReq(num, body, etag, o) ==
    [op |-> "UploadPart", num |-> num, body |-> body, etag |-> etag,
     parts |-> <<>>, outcome |-> o]
CompleteReq(ps, o) ==
    [op |-> "CompleteMultipartUpload", num |-> 0, body |-> <<>>, etag |-> NoETag,
     parts |-> ps, outcome |-> o]
AbortReq(o) ==
    [op |-> "AbortMultipartUpload", num |-> 0, body |-> <<>>, etag |-> NoETag,
     parts |-> <<>>, outcome |-> o]

\* ----------------------------------------------------------- S3Writer
\* The result of an internal step: the writer after it, the error it
\* returned, and the store answers not yet used.
Step(s, e, outs) == [s |-> s, err |-> e, outs |-> outs]

\* uploadPart, after the store accepted the part: record it under the
\* number it was uploaded with, reset the buffer, advance the counter.
RecordPart_IncrementFirst(s, etag) ==
    [s EXCEPT !.partNumber = @ + 1,
              !.parts = Append(@, [ETag |-> etag, PartNumber |-> s.partNumber + 1]),
              !.buffer = <<>>]
\* Recording the part without resetting the buffer.
RecordPart_KeepBuffer(s, etag) ==
    [s EXCEPT !.parts = Append(@, [ETag |-> etag, PartNumber |-> s.partNumber]),
              !.partNumber = @ + 1]
RecordPart(s, etag) ==
    LET currentPartNumber == s.partNumber
    IN  [s EXCEPT !.parts = Append(@, [ETag |-> etag, PartNumber |-> currentPartNumber]),
                  !.buffer = <<>>,
                  !.partNumber = @ + 1]

uploadPart_NoCeiling(s, outs, id) ==
    IF Len(s.buffer) = 0 THEN Step(s, Nil, outs)
    ELSE LET data == s.buffer
             o == Response(outs)
             etag == IF o = "ok" THEN ETagOf(Len(s.requests) + 1) ELSE NoETag
             sent == [s EXCEPT !.requests =
                          Append(@, UploadPartReq(s.partNumber, data, etag, o))]
         IN  IF o = "error"
             THEN Step(sent, Err("upload", s.partNumber, id), Rest(outs))
             ELSE IF etag = NoETag
             THEN Step(sent, Err("etag", s.partNumber, id), Rest(outs))
             ELSE Step(RecordPart(sent, etag), Nil, Rest(outs))
\* uploadPart that takes any answer but a transport error as success.
uploadPart_NoETagCheck(s, outs, id) ==
    IF Len(s.buffer) = 0 THEN Step(s, Nil, outs)
    ELSE IF s.partNumber > MaxParts THEN Step(s, Err("maxparts", 0, id), outs)
    ELSE LET data == s.buffer
             o == Response(outs)
             etag == IF o = "ok" THEN ETagOf(Len(s.requests) + 1) ELSE NoETag
             sent == [s EXCEPT !.requests =
                          Append(@, UploadPartReq(s.partNumber, data, etag, o))]
         IN  IF o = "error"
             THEN Step(sent, Err("upload", s.partNumber, id), Rest(outs))
             ELSE Step(RecordPart(sent, etag), Nil, Rest(outs))
uploadPart(s, outs, id) ==
    IF Len(s.buffer) = 0 THEN Step(s, Nil, outs)
    ELSE IF s.partNumber > MaxParts THEN Step(s, Err("maxparts", 0, id), outs)
    ELSE LET data == s.buffer
             o == Response(outs)
             etag == IF o = "ok" THEN ETagOf(Len(s.requests) + 1) ELSE NoETag
             sent == [s EXCEPT !.requests =
                          Append(@, UploadPartReq(s.partNumber, data, etag, o))]
         IN  IF o = "error"
             THEN Step(sent, Err("upload", s.partNumber, id), Rest(outs))
             ELSE IF etag = NoETag
             THEN Step(sent, Err("etag", s.partNumber, id), Rest(outs))
             ELSE Step(RecordPart(sent, etag), Nil, Rest(outs))

\* sort.Slice(w.parts, by PartNumber): insertion sort.
RECURSIVE InsertPart(_, _)
InsertPart(sorted, x) ==
    IF sorted = <<>> THEN <<x>>
    ELSE IF x.PartNumber < Head(sorted).PartNumber THEN <<x>> \o sorted
    ELSE <<Head(sorted)>> \o InsertPart(Tail(sorted), x)
RECURSIVE SortParts(_)
SortParts(ps) ==
    IF ps = <<>> THEN <<>>
    ELSE InsertPart(SortParts(SubSeq(ps, 1, Len(ps) - 1)), ps[Len(ps)])

completeMultipartUpload_NoEmptyCheck(s, outs, id) ==
    LET sorted == [s EXCEPT !.parts = SortParts(@)]
        o == Response(outs)
        sent == [sorted EXCEPT !.requests = Append(@, CompleteReq(sorted.parts, o))]
    IN  IF o = "error"
        THEN Step(sent, Err("complete", Len(sorted.parts), id), Rest(outs))
        ELSE Step(sent, Nil, Rest(outs))
completeMultipartUpload(s, outs, id) ==
    IF uploadID = NoUpload THEN Step(s, Err("noupload", 0, id), outs)
    ELSE IF Len(s.parts) = 0 THEN Step(s, Err("noparts", 0, id), outs)
    ELSE LET sorted == [s EXCEPT !.parts = SortParts(@)]
         IN  IF \E i \in 1..Len(sorted.parts) : sorted.parts[i].ETag = NoETag
             THEN Step(sorted, Err("partetag", 0, id), outs)
             ELSE LET o == Response(outs)
                      sent == [sorted EXCEPT !.requests =
                                   Append(@, CompleteReq(sorted.parts, o))]
                  IN  IF o = "error"
                      THEN Step(sent, Err("complete", Len(sorted.parts), id), Rest(outs))
                      ELSE Step(sent, Nil, Rest(outs))

\* abortMultipartUpload that sends the request once more when it fails.
abortMultipartUpload_Retry(s, outs, id) ==
    IF uploadID = NoUpload THEN Step(s, Nil, outs)
    ELSE LET o == Response(outs)
             sent == [s EXCEPT !.requests = Append(@, AbortReq(o))]
             o2 == Response(Rest(outs))
             resent == [sent EXCEPT !.requests = Append(@, AbortReq(o2))]
         IN  IF o = "error"
             THEN Step(resent, IF o2 = "error" THEN Err("abort", 0, id) ELSE Nil,
                       Rest(Rest(outs)))
             ELSE Step(sent, Nil, Rest(outs))
abortMultipartUpload(s, outs, id) ==
    IF uploadID = NoUpload THEN Step(s, Nil, outs)
    ELSE LET o == Response(outs)
             sent == [s EXCEPT !.requests = Append(@, AbortReq(o))]
         IN  IF o = "error"
             THEN Step(sent, Err("abort", 0, id), Rest(outs))
             ELSE Step(sent, Nil, Rest(outs))

\* What a public method returns: the writer after the call, the byte count
\* (Write only) and the error.
Ret(s, n, e) == [s |-> s, n |-> n, err |-> e]

\* The loop without its second flush: a buffer that has just become full
\* stays so until more bytes arrive.
RECURSIVE WriteLoop_LazyFlush(_, _, _, _, _)
WriteLoop_LazyFlush(s, p, totalWritten, outs, id) ==
    IF Len(p) = 0 THEN Ret(s, totalWritten, Nil)
    ELSE LET full == partSize - Len(s.buffer) <= 0
             u1 == IF full THEN uploadPart(s, outs, id) ELSE Step(s, Nil, outs)
         IN  IF u1.err # Nil
             THEN Ret([u1.s EXCEPT !.err = u1.err], totalWritten, u1.err)
             ELSE LET remaining == IF full THEN partSize
                                   ELSE partSize - Len(s.buffer)
                      toWrite == min(Len(p), remaining)
                  IN  The({WriteLoop_LazyFlush(
                               [u.s EXCEPT !.buffer = @ \o SubSeq(p, 1, toWrite)],
                               SubSeq(p, toWrite + 1, Len(p)),
                               totalWritten + toWrite, u.outs, id) : u \in {u1}})
\* The loop returning, when the flush after an append fails, the count from
\* before the append.
RECURSIVE WriteLoop_UncountedOnFailure(_, _, _, _, _)
WriteLoop_UncountedOnFailure(s, p, totalWritten, outs, id) ==
    IF Len(p) = 0 THEN Ret(s, totalWritten, Nil)
    ELSE LET full == partSize - Len(s.buffer) <= 0
             u1 == IF full THEN uploadPart(s, outs, id) ELSE Step(s, Nil, outs)
         IN  IF u1.err # Nil
             THEN Ret([u1.s EXCEPT !.err = u1.err], totalWritten, u1.err)
             ELSE LET remaining == IF full THEN partSize
                                   ELSE partSize - Len(s.buffer)
                      toWrite == min(Len(p), remaining)
                      s2 == [u1.s EXCEPT !.buffer = @ \o SubSeq(p, 1, toWrite)]
                      total2 == totalWritten + toWrite
                      u2 == IF Len(s2.buffer) >= partSize
                            THEN uploadPart(s2, u1.outs, id)
                            ELSE Step(s2, Nil, u1.outs)
                  IN  IF u2.err # Nil
                      THEN Ret([u2.s EXCEPT !.err = u2.err], totalWritten, u2.err)
                      ELSE The({WriteLoop_UncountedOnFailure(
                                    u.s, SubSeq(p, toWrite + 1, Len(p)),
                                    total2, u.outs, id) : u \in {u2}})
\* The body of Write's loop, from `for len(p) > 0`.
RECURSIVE WriteLoop(_, _, _, _, _)
WriteLoop(s, p, totalWritten, outs, id) ==
    IF Len(p) = 0 THEN Ret(s, totalWritten, Nil)
    ELSE LET full == partSize - Len(s.buffer) <= 0
             u1 == IF full THEN uploadPart(s, outs, id) ELSE Step(s, Nil, outs)
         IN  IF u1.err # Nil
             THEN Ret([u1.s EXCEPT !.err = u1.err], totalWritten, u1.err)
             ELSE LET remaining == IF full THEN partSize
                                   ELSE partSize - Len(s.buffer)
                      toWrite == min(Len(p), remaining)
                      s2 == [u1.s EXCEPT !.buffer = @ \o SubSeq(p, 1, toWrite)]
                      total2 == totalWritten + toWrite
                      u2 == IF Len(s2.buffer) >= partSize
                            THEN uploadPart(s2, u1.outs, id)
                            ELSE Step(s2, Nil, u1.outs)
                  IN  IF u2.err # Nil
                      THEN Ret([u2.s EXCEPT !.err = u2.err], total2, u2.err)
                      ELSE The({WriteLoop(u.s, SubSeq(p, toWrite + 1, Len(p)),
                                          total2, u.outs, id) : u \in {u2}})

Write_NoStickyCheck(s, p, done, outs, id) ==
    IF done THEN Ret(s, 0, Canceled)
    ELSE IF s.closed THEN Ret(s, 0, Err("closed", 0, id))
    ELSE WriteLoop(s, p, 0, outs, id)
Write_NoClosedCheck(s, p, done, outs, id) ==
    IF done THEN Ret(s, 0, Canceled)
    ELSE IF s.err # Nil THEN Ret(s, 0, s.err)
    ELSE WriteLoop(s, p, 0, outs, id)
\* Write that uploads whatever is buffered before it returns.
Write_FlushEachCall(s, p, done, outs, id) ==
    IF done THEN Ret(s, 0, Canceled)
    ELSE IF s.closed THEN Ret(s, 0, Err("closed", 0, id))
    ELSE IF s.err # Nil THEN Ret(s, 0, s.err)
    ELSE LET r == WriteLoop(s, p, 0, outs, id)
             u == uploadPart(r.s, <<>>, id)
         IN  IF r.err # Nil THEN r
             ELSE IF u.err # Nil THEN Ret([u.s EXCEPT !.err = u.err], r.n, u.err)
             ELSE Ret(u.s, r.n, Nil)
\* Write with the closed check ahead of the cancellation check.
Write_ClosedCheckFirst(s, p, done, outs, id) ==
    IF s.closed THEN Ret(s, 0, Err("closed", 0, id))
    ELSE IF done THEN Ret(s, 0, Canceled)
    ELSE IF s.err # Nil THEN Ret(s, 0, s.err)
    ELSE WriteLoop(s, p, 0, outs, id)
Write(s, p, done, outs, id) ==
    IF done THEN Ret(s, 0, Canceled)
    ELSE IF s.closed THEN Ret(s, 0, Err("closed", 0, id))
    ELSE IF s.err # Nil THEN Ret(s, 0, s.err)
    ELSE WriteLoop(s, p, 0, outs, id)

\* Close, from `w.closed = true` on: flush the rest, complete, abort on failure.
Finalize_NoAbortOnFlushFailure(s, outs, id) ==
    LET c == [s EXCEPT !.closed = TRUE]
        u == IF Len(c.buffer) > 0 THEN uploadPart(c, outs, id) ELSE Step(c, Nil, outs)
    IN  IF u.err # Nil
        THEN Ret([u.s EXCEPT !.err = u.err], 0, u.err)
        ELSE LET f == completeMultipartUpload(u.s, u.outs, id)
             IN  IF f.err # Nil
                 THEN Ret(abortMultipartUpload([f.s EXCEPT !.err = f.err], f.outs, id).s,
                          0, f.err)
                 ELSE Ret(f.s, 0, Nil)
Finalize_NoAbortOnCompleteFailure(s, outs, id) ==
    LET c == [s EXCEPT !.closed = TRUE]
        u == IF Len(c.buffer) > 0 THEN uploadPart(c, outs, id) ELSE Step(c, Nil, outs)
    IN  IF u.err # Nil
        THEN Ret(abortMultipartUpload([u.s EXCEPT !.err = u.err], u.outs, id).s, 0, u.err)
        ELSE LET f == completeMultipartUpload(u.s, u.outs, id)
             IN  IF f.err # Nil
                 THEN Ret([f.s EXCEPT !.err = f.err], 0, f.err)
                 ELSE Ret(f.s, 0, Nil)
\* Close that does not mark the writer closed.
Finalize_NotMarkedClosed(s, outs, id) ==
    LET u == IF Len(s.buffer) > 0 THEN uploadPart(s, outs, id) ELSE Step(s, Nil, outs)
    IN  IF u.err # Nil
        THEN Ret(abortMultipartUpload([u.s EXCEPT !.err = u.err], u.outs, id).s, 0, u.err)
        ELSE LET f == completeMultipartUpload(u.s, u.outs, id)
             IN  IF f.err # Nil
                 THEN Ret(abortMultipartUpload([f.s EXCEPT !.err = f.err], f.outs, id).s,
                          0, f.err)
                 ELSE Ret(f.s, 0, Nil)
Finalize(s, outs, id) ==
    LET c == [s EXCEPT !.closed = TRUE]
        u == IF Len(c.buffer) > 0 THEN uploadPart(c, outs, id) ELSE Step(c, Nil, outs)
    IN  IF u.err # Nil
        THEN Ret(abortMultipartUpload([u.s EXCEPT !.err = u.err], u.outs, id).s, 0, u.err)
        ELSE LET f == completeMultipartUpload(u.s, u.outs, id)
             IN  IF f.err # Nil
                 THEN Ret(abortMultipartUpload([f.s EXCEPT !.err = f.err], f.outs, id).s,
                          0, f.err)
                 ELSE Ret(f.s, 0, Nil)

Close_NoFlush(s, done, outs, id) ==
    IF done
    THEN IF ~s.closed
         THEN Ret(abortMultipartUpload([s EXCEPT !.closed = TRUE], outs, id).s, 0, Canceled)
         ELSE Ret(s, 0, Canceled)
    ELSE IF s.closed THEN Ret(s, 0, s.err)
    ELSE Finalize([s EXCEPT !.buffer = <<>>], outs, id)
Close_NoCancelCheck(s, done, outs, id) ==
    IF s.closed THEN Ret(s, 0, s.err)
    ELSE Finalize(s, outs, id)
Close(s, done, outs, id) ==
    IF done
    THEN IF ~s.closed
         THEN Ret(abortMultipartUpload([s EXCEPT !.closed = TRUE], outs, id).s, 0, Canceled)
         ELSE Ret(s, 0, Canceled)
    ELSE IF s.closed THEN Ret(s, 0, s.err)
    ELSE Finalize(s, outs, id)

Abort_NotMarkedClosed(s, outs, id) ==
    LET a == abortMultipartUpload(s, outs, id)
    IN  Ret(a.s, 0, a.err)
\* Abort that leaves a writer that is already closed alone.
Abort_OnlyWhenOpen(s, outs, id) ==
    IF s.closed THEN Ret(s, 0, Nil)
    ELSE LET a == abortMultipartUpload([s EXCEPT !.closed = TRUE], outs, id)
         IN  Ret(a.s, 0, a.err)
Abort(s, outs, id) ==
    LET c == IF ~s.closed THEN [s EXCEPT !.closed = TRUE] ELSE s
        a == abortMultipartUpload(c, outs, id)
    IN  Ret(a.s, 0, a.err)

\* ------------------------------------------------- the writer's callers
\* One entry of hist: the method, the slice passed (Write), the values
\* returned, and whether the context was cancelled when the call was made.
Call(op, p, r, done) == [op |-> op, p |-> p, n |-> r.n, err |-> r.err, ctx |-> done]

RECURSIVE Input(_)
\* All bytes handed to Write so far, in call order.
Input(h) == IF h = <<>> THEN <<>> ELSE Input(SubSeq(h, 1, Len(h) - 1)) \o h[Len(h)].p

\* The writer never inspects a byte's value, so the caller tags each byte it
\* offers with its position in the whole input: a lost, repeated or displaced
\* byte then shows in the uploaded bodies.
NextBytes(len) == [i \in 1..len |-> Len(Input(hist)) + i]

\* A Write stops at its first failed upload: the schedules with at most one
\* failure, at any of the uploads one call can make.
MaxUploadsPerWrite == 1 + (MaxWriteLen - 1) \div MinPartSize
WriteSchedules ==
    {<<>>} \cup {[i \in 1..k |-> IF i = k THEN f ELSE "ok"] :
                    k \in 1..MaxUploadsPerWrite, f \in {"error", "noETag"}}
\* Close makes at most three requests: UploadPart, Complete, Abort.
CloseSchedules == {<<u, c, a>> : u \in Outcomes, c \in {"ok", "error"}, a \in {"ok", "error"}}
AbortSchedules == {<<a>> : a \in {"ok", "error"}}

Returned(r, c) ==
    /\ buffer' = r.s.buffer
    /\ partNumber' = r.s.partNumber
    /\ parts' = r.s.parts
    /\ closed' = r.s.closed
    /\ err' = r.s.err
    /\ requests' = r.s.requests
    /\ hist' = Append(hist, c)
    /\ UNCHANGED <<partSize, uploadID, ctxDone, rvars, xvars, fvars>>

WriteCall ==
    /\ Len(hist) < MaxCalls
    /\ \E len \in 0..MaxWriteLen, outs \in WriteSchedules :
          LET p == NextBytes(len)
              r == Write(W, p, ctxDone, outs, Len(hist) + 1)
          IN  Returned(r, Call("Write", p, r, ctxDone))

CloseCall ==
    /\ Len(hist) < MaxCalls
    /\ \E outs \in CloseSchedules :
          LET r == Close(W, ctxDone, outs, Len(hist) + 1)
          IN  Returned(r, Call("Close", <<>>, r, ctxDone))

AbortCall ==
    /\ Len(hist) < MaxCalls
    /\ \E outs \in AbortSchedules :
          LET r == Abort(W, outs, Len(hist) + 1)
          IN  Returned(r, Call("Abort", <<>>, r, ctxDone))

\* The owner of the context cancels it.
Cancel ==
    /\ ~ctxDone
    /\ ctxDone' = TRUE
    /\ UNCHANGED <<partSize, uploadID, buffer, partNumber, parts, closed, err,
                   requests, hist, rvars, xvars, fvars>>

\* ------------------------------------------------------- ChunkStreamer
\* The stored object: byte i (from 0) has value i + 1, so that every byte is
\* recognisable in what Read delivers.
Object == [i \in 1..ObjLen |-> i]

\* GetObject with Range "bytes=start-end" (both inclusive, from 0), as the
\* store answers it: the end is clamped to the object, an empty or inverted
\* range is refused.
GetObject(start, end) ==
    LET e == min(end, Len(Object) - 1)
    IN  IF start < 0 \/ start >= Len(Object) \/ e < start
        THEN [ok |-> FALSE, data |-> <<>>]
        ELSE [ok |-> TRUE, data |-> SubSeq(Object, start + 1, e + 1)]

\* copy(dst, src) into a destination of b bytes: the bytes copied.
copy_OneShort(b, src) == SubSeq(src, 1, min(b, Len(src)) - 1)
copy(b, src) == SubSeq(src, 1, min(b, Len(src)))

\* The reader's mutable fields and the store's log, as one value.
R == [currentOffset |-> currentOffset, eof |-> eof, buffer |-> csBuffer,
      fetches |-> fetches]

\* What Read returns: the reader after the call, the bytes put in p, the error.
ReadRet(r, data, e) == [r |-> r, data |-> data, err |-> e]
EOF == Err("EOF", 0, 0)

\* After a successful fetch: advance the cursor, mark the end, hand out what
\* fits in p and keep the rest.
Deliver_DropLeftover(r, b, endOffset, chunkData) ==
    LET moved == [r EXCEPT !.currentOffset = endOffset + 1,
                           !.eof = (endOffset + 1 >= offset + size)]
    IN  ReadRet(moved, copy(b, chunkData), Nil)
Deliver_AdvanceByCopied(r, b, endOffset, chunkData) ==
    LET n == Len(copy(b, chunkData))
        moved == [r EXCEPT !.currentOffset = @ + n,
                           !.eof = IF r.currentOffset + n >= offset + size THEN TRUE ELSE @]
    IN  ReadRet(moved, copy(b, chunkData), Nil)
Deliver(r, b, endOffset, chunkData) ==
    LET moved == [r EXCEPT !.currentOffset = endOffset + 1,
                           !.eof = IF endOffset + 1 >= offset + size THEN TRUE ELSE @]
        n == Len(copy(b, chunkData))
    IN  IF n < Len(chunkData)
        THEN ReadRet([moved EXCEPT !.buffer = SubSeq(chunkData, n + 1, Len(chunkData))],
                     copy(b, chunkData), Nil)
        ELSE ReadRet(moved, copy(b, chunkData), Nil)

Read_NoEndCheck(r, b, storeOK, id) ==
    IF r.eof /\ Len(r.buffer) = 0 THEN ReadRet(r, <<>>, EOF)
    ELSE IF Len(r.buffer) > 0
    THEN LET n == Len(copy(b, r.buffer))
         IN  ReadRet([r EXCEPT !.buffer = SubSeq(@, n + 1, Len(@))], copy(b, r.buffer), Nil)
    ELSE LET endOffset == IF r.currentOffset + chunkSize - 1 >= offset + size
                          THEN offset + size - 1
                          ELSE r.currentOffset + chunkSize - 1
             resp == IF storeOK THEN GetObject(r.currentOffset, endOffset)
                     ELSE [ok |-> FALSE, data |-> <<>>]
             asked == [r EXCEPT !.fetches =
                          Append(@, [start |-> r.currentOffset, end |-> endOffset,
                                     ok |-> resp.ok])]
         IN  IF ~resp.ok
             THEN ReadRet(asked, <<>>, Err("download", r.currentOffset, id))
             ELSE Deliver(asked, b, endOffset, resp.data)
Read_AdvanceOnFailure(r, b, storeOK, id) ==
    IF r.eof /\ Len(r.buffer) = 0 THEN ReadRet(r, <<>>, EOF)
    ELSE IF Len(r.buffer) > 0
    THEN LET n == Len(copy(b, r.buffer))
         IN  ReadRet([r EXCEPT !.buffer = SubSeq(@, n + 1, Len(@))], copy(b, r.buffer), Nil)
    ELSE IF r.currentOffset >= offset + size
    THEN ReadRet([r EXCEPT !.eof = TRUE], <<>>, EOF)
    ELSE LET endOffset == IF r.currentOffset + chunkSize - 1 >= offset + size
                          THEN offset + size - 1
                          ELSE r.currentOffset + chunkSize - 1
             resp == IF storeOK THEN GetObject(r.currentOffset, endOffset)
                     ELSE [ok |-> FALSE, data |-> <<>>]
             asked == [r EXCEPT !.fetches =
                          Append(@, [start |-> r.currentOffset, end |-> endOffset,
                                     ok |-> resp.ok])]
         IN  IF ~resp.ok
             THEN ReadRet([asked EXCEPT !.currentOffset = endOffset + 1], <<>>,
                          Err("download", r.currentOffset, id))
             ELSE Deliver(asked, b, endOffset, resp.data)
\* Read that reports the end as soon as the last chunk was fetched, bytes
\* of it still waiting in the leftover buffer.
Read_EOFIgnoresLeftover(r, b, storeOK, id) ==
    IF r.eof THEN ReadRet(r, <<>>, EOF)
    ELSE IF Len(r.buffer) > 0
    THEN LET n == Len(copy(b, r.buffer))
         IN  ReadRet([r EXCEPT !.buffer = SubSeq(@, n + 1, Len(@))], copy(b, r.buffer), Nil)
    ELSE IF r.currentOffset >= offset + size
    THEN ReadRet([r EXCEPT !.eof = TRUE], <<>>, EOF)
    ELSE LET endOffset == IF r.currentOffset + chunkSize - 1 >= offset + size
                          THEN offset + size - 1
                          ELSE r.currentOffset + chunkSize - 1
             resp == IF storeOK THEN GetObject(r.currentOffset, endOffset)
                     ELSE [ok |-> FALSE, data |-> <<>>]
             asked == [r EXCEPT !.fetches =
                          Append(@, [start |-> r.currentOffset, end |-> endOffset,
                                     ok |-> resp.ok])]
         IN  IF ~resp.ok
             THEN ReadRet(asked, <<>>, Err("download", r.currentOffset, id))
             ELSE Deliver(asked, b, endOffset, resp.data)
\* Read that starts the stream over once it has reported its end.
Read_RewindAtEOF(r, b, storeOK, id) ==
    IF r.eof /\ Len(r.buffer) = 0
    THEN ReadRet([r EXCEPT !.eof = FALSE, !.currentOffset = offset], <<>>, EOF)
    ELSE IF Len(r.buffer) > 0
    THEN LET n == Len(copy(b, r.buffer))
         IN  ReadRet([r EXCEPT !.buffer = SubSeq(@, n + 1, Len(@))], copy(b, r.buffer), Nil)
    ELSE IF r.currentOffset >= offset + size
    THEN ReadRet([r EXCEPT !.eof = TRUE], <<>>, EOF)
    ELSE LET endOffset == IF r.currentOffset + chunkSize - 1 >= offset + size
                          THEN offset + size - 1
                          ELSE r.currentOffset + chunkSize - 1
             resp == IF storeOK THEN GetObject(r.currentOffset, endOffset)
                     ELSE [ok |-> FALSE, data |-> <<>>]
             asked == [r EXCEPT !.fetches =
                          Append(@, [start |-> r.currentOffset, end |-> endOffset,
                                     ok |-> resp.ok])]
         IN  IF ~resp.ok
             THEN ReadRet(asked, <<>>, Err("download", r.currentOffset, id))
             ELSE Deliver(asked, b, endOffset, resp.data)
\* Read that goes to the store without looking at the leftover buffer.
Read_IgnoreLeftover(r, b, storeOK, id) ==
    IF r.eof /\ Len(r.buffer) = 0 THEN ReadRet(r, <<>>, EOF)
    ELSE IF r.currentOffset >= offset + size
    THEN ReadRet([r EXCEPT !.eof = TRUE], <<>>, EOF)
    ELSE LET endOffset == IF r.currentOffset + chunkSize - 1 >= offset + size
                          THEN offset + size - 1
                          ELSE r.currentOffset + chunkSize - 1
             resp == IF storeOK THEN GetObject(r.currentOffset, endOffset)
                     ELSE [ok |-> FALSE, data |-> <<>>]
             asked == [r EXCEPT !.fetches =
                          Append(@, [start |-> r.currentOffset, end |-> endOffset,
                                     ok |-> resp.ok])]
         IN  IF ~resp.ok
             THEN ReadRet(asked, <<>>, Err("download", r.currentOffset, id))
             ELSE Deliver(asked, b, endOffset, resp.data)
\* Read(p) with len(p) = b; storeOK says whether the store answers the fetch.
Read(r, b, storeOK, id) ==
    IF r.eof /\ Len(r.buffer) = 0 THEN ReadRet(r, <<>>, EOF)
    ELSE IF Len(r.buffer) > 0
    THEN LET n == Len(copy(b, r.buffer))
         IN  ReadRet([r EXCEPT !.buffer = SubSeq(@, n + 1, Len(@))], copy(b, r.buffer), Nil)
    ELSE IF r.currentOffset >= offset + size
    THEN ReadRet([r EXCEPT !.eof = TRUE], <<>>, EOF)
    ELSE LET endOffset == IF r.currentOffset + chunkSize - 1 >= offset + size
                          THEN offset + size - 1
                          ELSE r.currentOffset + chunkSize - 1
             resp == IF storeOK THEN GetObject(r.currentOffset, endOffset)
                     ELSE [ok |-> FALSE, data |-> <<>>]
             asked == [r EXCEPT !.fetches =
                          Append(@, [start |-> r.currentOffset, end |-> endOffset,
                                     ok |-> resp.ok])]
         IN  IF ~resp.ok
             THEN ReadRet(asked, <<>>, Err("download", r.currentOffset, id))
             ELSE Deliver(asked, b, endOffset, resp.data)

FailedFetches(fs) == Cardinality({i \in 1..Len(fs) : ~fs[i].ok})

\* One Read call with a destination of some size; the store may refuse the
\* fetch a bounded number of times in a run.
ReadOnce ==
    /\ \E b \in 1..MaxDest, storeOK \in BOOLEAN :
          /\ storeOK \/ FailedFetches(fetches) < MaxFetchFailures
          /\ LET r == Read(R, b, storeOK, Len(reads) + 1)
             IN  /\ currentOffset' = r.r.currentOffset
                 /\ eof' = r.r.eof
                 /\ csBuffer' = r.r.buffer
                 /\ fetches' = r.r.fetches
                 /\ reads' = Append(reads, [b |-> b, data |-> r.data, err |-> r.err])
                 /\ UNCHANGED <<offset, size, chunkSize, mu, pc, local, wvars, xvars, fvars>>
ReadCall == Len(reads) < MaxReads /\ ReadOnce
\* The caller of io.ReadAll: it calls Read until one returns end-of-stream.
ReadToEnd == (\A i \in 1..Len(reads) : reads[i].err # EOF) /\ ReadOnce

\* ------------------------------------------- ChunkStreamer, shared
\* Several goroutines call Read on one ChunkStreamer. A call is in one of
\* five places: not started, waiting at c.mu.Lock(), in the body before the
\* fetch, waiting for the store's answer, and about to run the deferred
\* Unlock and return.
Callers == 1..NumCallers
Unlocked == 0
NoLocal == [b |-> 0, start |-> 0, end |-> 0, data |-> <<>>, err |-> Nil, got |-> <<>>]

\* Read gets as far as the fetch: nothing left over, not at the end.
NeedsFetch(r) == ~r.eof /\ Len(r.buffer) = 0 /\ r.currentOffset < offset + size
\* endOffset as Read computes it.
ChunkEnd(r) ==
    IF r.currentOffset + chunkSize - 1 >= offset + size
    THEN offset + size - 1
    ELSE r.currentOffset + chunkSize - 1

SetReader(r) ==
    /\ currentOffset' = r.currentOffset
    /\ eof' = r.eof
    /\ csBuffer' = r.buffer
    /\ fetches' = r.fetches

\* Read calls started so far.
Started == Len(reads) + Cardinality({c \in Callers : pc[c] # "idle"})

\* A goroutine calls Read(p), len(p) = b.
CallRead(c) ==
    /\ pc[c] = "idle" /\ Started < MaxSharedReads
    /\ \E b \in 1..MaxDest :
          local' = [local EXCEPT ![c] = [NoLocal EXCEPT !.b = b, !.got = local[c].got]]
    /\ pc' = [pc EXCEPT ![c] = "lock"]
    /\ UNCHANGED <<offset, size, chunkSize, currentOffset, eof, csBuffer, fetches,
                   reads, mu, wvars, xvars, fvars>>

\* c.mu.Lock(): blocks while another caller holds the mutex.
Lock_NotExclusive(c) ==
    /\ pc[c] = "lock"
    /\ mu' = c
    /\ pc' = [pc EXCEPT ![c] = "body"]
    /\ UNCHANGED <<offset, size, chunkSize, currentOffset, eof, csBuffer, fetches,
                   reads, local, wvars, xvars, fvars>>
Lock(c) ==
    /\ pc[c] = "lock" /\ mu = Unlocked
    /\ mu' = c
    /\ pc' = [pc EXCEPT ![c] = "body"]
    /\ UNCHANGED <<offset, size, chunkSize, currentOffset, eof, csBuffer, fetches,
                   reads, local, wvars, xvars, fvars>>

\* The body up to the fetch: answer from the leftover or with end-of-stream,
\* or compute the range and send the request.
Begin(c) ==
    /\ pc[c] = "body"
    /\ IF NeedsFetch(R)
       THEN /\ local' = [local EXCEPT ![c].start = currentOffset, ![c].end = ChunkEnd(R)]
            /\ pc' = [pc EXCEPT ![c] = "fetching"]
            /\ UNCHANGED <<currentOffset, eof, csBuffer, fetches>>
       ELSE LET r == Read(R, local[c].b, TRUE, Len(reads) + 1)
            IN  /\ SetReader(r.r)
                /\ local' = [local EXCEPT ![c].data = r.data, ![c].err = r.err]
                /\ pc' = [pc EXCEPT ![c] = "unlock"]
    /\ UNCHANGED <<offset, size, chunkSize, reads, mu, wvars, xvars, fvars>>

\* The store answers the fetch, or fails it; the body runs to its return.
Respond(c) ==
    /\ pc[c] = "fetching"
    /\ \E storeOK \in BOOLEAN :
          /\ storeOK \/ FailedFetches(fetches) < MaxFetchFailures
          /\ LET resp == IF storeOK THEN GetObject(local[c].start, local[c].end)
                         ELSE [ok |-> FALSE, data |-> <<>>]
                 asked == [R EXCEPT !.fetches =
                              Append(@, [start |-> local[c].start, end |-> local[c].end,
                                         ok |-> resp.ok])]
                 r == IF ~resp.ok
                      THEN ReadRet(asked, <<>>, Err("download", local[c].start, Len(reads) + 1))
                      ELSE Deliver(asked, local[c].b, local[c].end, resp.data)
             IN  /\ SetReader(r.r)
                 /\ local' = [local EXCEPT ![c].data = r.data, ![c].err = r.err]
    /\ pc' = [pc EXCEPT ![c] = "unlock"]
    /\ UNCHANGED <<offset, size, chunkSize, reads, mu, wvars, xvars, fvars>>

\* The deferred c.mu.Unlock() and the return to the caller.
Unlock(c) ==
    /\ pc[c] = "unlock"
    /\ mu' = Unlocked
    /\ reads' = Append(reads, [b |-> local[c].b, data |-> local[c].data, err |-> local[c].err])
    /\ local' = [local EXCEPT ![c].got = @ \o local[c].data]
    /\ pc' = [pc EXCEPT ![c] = "idle"]
    /\ UNCHANGED <<offset, size, chunkSize, currentOffset, eof, csBuffer, fetches, wvars, xvars, fvars>>

\* ------------------------------------------------ S3Writer, shared
\* Several goroutines call Write, Close and Abort on one S3Writer whose
\* store is healthy. A call waits at w.mu.Lock(), reads the writer's fields,
\* talks to the store and writes the fields back, then runs the deferred
\* Unlock and returns.
NoWriterState == [buffer |-> <<>>, partNumber |-> 1, parts |-> <<>>, closed |-> FALSE,
                  err |-> Nil, requests |-> <<>>]
\* A compressor that has not been written to.
NoCompressor == [wroteHeader |-> FALSE, pending |-> <<>>, total |-> 0,
                 closed |-> FALSE, err |-> Nil]
NoCall == [op |-> "none", p |-> <<>>, full |-> FALSE, s |-> NoWriterState,
           z |-> NoCompressor, n |-> 0, err |-> Nil]

\* Calls started so far on the shared writer.
StartedCalls == Len(hist) + Cardinality({c \in Callers : wpc[c] # "idle"})
\* The bytes of the k-th call started, recognisable as that call's.
BytesOfCall(k, len) == [i \in 1..len |-> k * (MaxWriteLen + 1) + i]

SetWriter(s) ==
    /\ buffer' = s.buffer
    /\ partNumber' = s.partNumber
    /\ parts' = s.parts
    /\ closed' = s.closed
    /\ err' = s.err
    /\ requests' = s.requests

\* A goroutine calls Write(p), with p of one byte or of MaxWriteLen bytes,
\* Close() or Abort().
CallWriter(c) ==
    /\ wpc[c] = "idle" /\ StartedCalls < MaxSharedCalls
    /\ \/ \E len \in {1, MaxWriteLen} :
             wlocal' = [wlocal EXCEPT ![c] =
                           [NoCall EXCEPT !.op = "Write",
                                          !.p = BytesOfCall(StartedCalls + 1, len)]]
       \/ \E op \in {"Close", "Abort"} :
             wlocal' = [wlocal EXCEPT ![c] = [NoCall EXCEPT !.op = op]]
    /\ wpc' = [wpc EXCEPT ![c] = "lock"]
    /\ UNCHANGED <<wvars, wmu, cwvars, rvars, fvars>>

\* w.mu.Lock(): blocks while another caller holds the mutex.
LockWriter_NotExclusive(c) ==
    /\ wpc[c] = "lock"
    /\ wmu' = c
    /\ wpc' = [wpc EXCEPT ![c] = "body"]
    /\ UNCHANGED <<wvars, wlocal, cwvars, rvars, fvars>>
LockWriter(c) ==
    /\ wpc[c] = "lock" /\ wmu = Unlocked
    /\ wmu' = c
    /\ wpc' = [wpc EXCEPT ![c] = "body"]
    /\ UNCHANGED <<wvars, wlocal, cwvars, rvars, fvars>>

\* The method starts on the fields as it finds them.
EnterWriter(c) ==
    /\ wpc[c] = "body"
    /\ wlocal' = [wlocal EXCEPT ![c].s = W]
    /\ wpc' = [wpc EXCEPT ![c] = "io"]
    /\ UNCHANGED <<wvars, wmu, cwvars, rvars, fvars>>

\* The method runs to its return: its requests reach the store, the fields
\* are left as it computed them.
RunWriter(c) ==
    /\ wpc[c] = "io"
    /\ LET s == [wlocal[c].s EXCEPT !.requests = requests]
           id == Len(hist) + 1
           r == IF wlocal[c].op = "Write" THEN Write(s, wlocal[c].p, ctxDone, <<>>, id)
                ELSE IF wlocal[c].op = "Close" THEN Close(s, ctxDone, <<>>, id)
                ELSE Abort(s, <<>>, id)
       IN  /\ SetWriter(r.s)
           /\ wlocal' = [wlocal EXCEPT ![c].n = r.n, ![c].err = r.err]
    /\ wpc' = [wpc EXCEPT ![c] = "unlock"]
    /\ UNCHANGED <<partSize, uploadID, ctxDone, hist, wmu, cwvars, rvars, fvars>>

\* The deferred w.mu.Unlock() and the return to the caller.
UnlockWriter(c) ==
    /\ wpc[c] = "unlock"
    /\ wmu' = Unlocked
    /\ hist' = Append(hist, Call(wlocal[c].op, wlocal[c].p, wlocal[c], ctxDone))
    /\ wpc' = [wpc EXCEPT ![c] = "idle"]
    /\ UNCHANGED <<partSize, uploadID, buffer, partNumber, parts, closed, err, ctxDone,
                   requests, wlocal, cwvars, rvars, fvars>>

\* -------------------------------------------------- CompressedS3Writer
\* The compressors (compress/gzip, dsnet bzip2) are library code: they are
\* modelled by what they promise. A compressor writes its header to the
\* underlying writer before anything else, keeps the bytes it was given
\* until a block is full or it is closed, writes them encoded, and on Close
\* writes what it still holds and a trailer that carries the length. A byte
\* x is encoded as x + 256, so that compressed data is never mistaken for
\* the bytes that went in; the trailer is 512 + the number of bytes.
Kinds == {"Uncompressed", "Gzip", "Bzip2"}
\* The signatures DetectCompression knows.
GzipMagic == <<31, 139>>
Bzip2Magic == <<66, 90, 104>>
\* What a compressor writes first: gzip's signature and its method byte
\* (deflate, 8); bzip2's signature.
Header(k) == IF k = "Gzip" THEN GzipMagic \o <<8>> ELSE Bzip2Magic
Encode(data) == [i \in 1..Len(data) |-> data[i] + 256]
Trailer(total) == <<512 + total>>

\* The compressed writer's two halves as one value.
CW == [w |-> W, z |-> compressor]
CwRet(st, n, e) == [st |-> st, n |-> n, err |-> e]
\* The store's answers a call has not used yet, after the writer sent its
\* requests.
Unused(outs, before, after) ==
    LET used == Len(after.requests) - Len(before.requests)
    IN  IF used >= Len(outs) THEN <<>> ELSE SubSeq(outs, used + 1, Len(outs))
\* The compressor hands bytes to cw.s3Writer.Write; it makes no call when it
\* has nothing to hand over.
Sink(w, out, done, outs, id) == IF out = <<>> THEN Ret(w, 0, Nil) ELSE Write(w, out, done, outs, id)

\* compressor.Write(p); full says whether p fills the compressor's block.
CompressorWrite(st, p, full, done, outs, id) ==
    IF st.z.err # Nil THEN CwRet(st, 0, st.z.err)
    ELSE LET out == (IF st.z.wroteHeader THEN <<>> ELSE Header(compressionType))
                    \o (IF full THEN Encode(st.z.pending \o p) ELSE <<>>)
             r == Sink(st.w, out, done, outs, id)
         IN  IF r.err # Nil
             THEN CwRet([w |-> r.s, z |-> [st.z EXCEPT !.err = r.err]], 0, r.err)
             ELSE CwRet([w |-> r.s,
                         z |-> [st.z EXCEPT !.wroteHeader = TRUE,
                                            !.pending = IF full THEN <<>> ELSE @ \o p,
                                            !.total = @ + Len(p)]],
                        Len(p), Nil)

\* compressor.Close(): the header if it is still due, what is held, the trailer.
CompressorClose(st, done, outs, id) ==
    IF st.z.err # Nil THEN CwRet(st, 0, st.z.err)
    ELSE IF st.z.closed THEN CwRet(st, 0, Nil)
    ELSE LET out == (IF st.z.wroteHeader THEN <<>> ELSE Header(compressionType))
                    \o Encode(st.z.pending) \o Trailer(st.z.total)
             r == Sink(st.w, out, done, outs, id)
         IN  IF r.err # Nil
             THEN CwRet([w |-> r.s, z |-> [st.z EXCEPT !.closed = TRUE, !.err = r.err]],
                        0, r.err)
             ELSE CwRet([w |-> r.s,
                         z |-> [st.z EXCEPT !.closed = TRUE, !.wroteHeader = TRUE,
                                            !.pending = <<>>]],
                        0, Nil)

\* CompressedS3Writer.Write
CwWrite(st, p, full, done, outs, id) ==
    IF compressionType # "Uncompressed"
    THEN CompressorWrite(st, p, full, done, outs, id)
    ELSE LET r == Write(st.w, p, done, outs, id)
         IN  CwRet([st EXCEPT !.w = r.s], r.n, r.err)

\* CompressedS3Writer.Close
CwClose_UnderlyingFirst(st, done, outs, id) ==
    LET r == Close(st.w, done, outs, id)
        c == IF compressionType # "Uncompressed"
             THEN CompressorClose([st EXCEPT !.w = r.s], done, Unused(outs, st.w, r.s), id)
             ELSE CwRet([st EXCEPT !.w = r.s], 0, Nil)
    IN  IF c.err # Nil THEN CwRet(c.st, 0, Err("compressorclose", 0, id))
        ELSE CwRet(c.st, 0, r.err)
CwClose(st, done, outs, id) ==
    The({LET rest == Unused(outs, st.w, c.st.w)
         IN  IF c.err # Nil
             THEN LET a == Abort(c.st.w, rest, id)
                  IN  CwRet([c.st EXCEPT !.w = a.s], 0, Err("compressorclose", 0, id))
             ELSE LET r == Close(c.st.w, done, rest, id)
                  IN  CwRet([c.st EXCEPT !.w = r.s], 0, r.err)
         : c \in {IF compressionType # "Uncompressed"
                  THEN CompressorClose(st, done, outs, id)
                  ELSE CwRet(st, 0, Nil)}})

\* CompressedS3Writer.Abort
CwAbort(st, done, outs, id) ==
    The({LET a == Abort(c.st.w, Unused(outs, st.w, c.st.w), id)
         IN  CwRet([c.st EXCEPT !.w = a.s], 0, a.err)
         : c \in {IF compressionType # "Uncompressed"
                  THEN CompressorClose(st, done, outs, id)
                  ELSE CwRet(st, 0, Nil)}})

\* ---- the compressed writer's caller
CwCall(op, p, r) == [op |-> op, p |-> p, n |-> r.n, err |-> r.err]
\* The byte values written: a plain byte and the two bytes of gzip's
\* signature, so that uncompressed data can look compressed.
InputBytes == {0} \cup {GzipMagic[i] : i \in 1..Len(GzipMagic)}
RECURSIVE CwInput(_)
\* All bytes handed to the compressed writer so far, in call order.
CwInput(h) == IF h = <<>> THEN <<>> ELSE CwInput(SubSeq(h, 1, Len(h) - 1)) \o h[Len(h)].p
\* One of the first MaxCwRequests requests of a call fails, or none.
CwSchedules ==
    {<<>>} \cup {[i \in 1..k |-> IF i = k THEN "error" ELSE "ok"] : k \in 1..MaxCwRequests}

CwReturned(r, c) ==
    /\ SetWriter(r.st.w)
    /\ compressor' = r.st.z
    /\ cwhist' = Append(cwhist, c)
    /\ UNCHANGED <<partSize, uploadID, ctxDone, hist, compressionType, wmu, wpc, wlocal, rvars, fvars>>

\* The caller does not write to a compressor it has closed.
CwWriteCall ==
    /\ Len(cwhist) < MaxCwCalls /\ ~compressor.closed
    /\ \E len \in 0..(MaxCwInput - Len(CwInput(cwhist))) :
          \E p \in [1..len -> InputBytes], full \in BOOLEAN, outs \in CwSchedules :
             LET r == CwWrite(CW, p, full, ctxDone, outs, Len(cwhist) + 1)
             IN  CwReturned(r, CwCall("Write", p, r))

CwCloseCall ==
    /\ Len(cwhist) < MaxCwCalls
    /\ \E outs \in CwSchedules :
          LET r == CwClose(CW, ctxDone, outs, Len(cwhist) + 1)
          IN  CwReturned(r, CwCall("Close", <<>>, r))

CwAbortCall ==
    /\ Len(cwhist) < MaxCwCalls
    /\ \E outs \in CwSchedules :
          LET r == CwAbort(CW, ctxDone, outs, Len(cwhist) + 1)
          IN  CwReturned(r, CwCall("Abort", <<>>, r))

\* ------------------------------------------------------- decompression
\* Go ranges over the map of signatures in an order that changes from run to
\* run: the orders DetectCompression can try them in.
Signature(k) == IF k = "Gzip" THEN GzipMagic ELSE Bzip2Magic
Orders == {<<"Bzip2", "Gzip">>, <<"Gzip", "Bzip2">>}
\* Matches without the length test: compares what bytes there are.
Matches_NoLengthCheck(source, m) ==
    LET n == min(Len(source), Len(m)) IN SubSeq(m, 1, n) = SubSeq(source, 1, n)
Matches(source, m) == Len(source) >= Len(m) /\ m = SubSeq(source, 1, Len(m))
RECURSIVE DetectCompression(_, _)
DetectCompression(source, order) ==
    IF order = <<>> THEN "Uncompressed"
    ELSE IF Matches(source, Signature(Head(order))) THEN Head(order)
    ELSE DetectCompression(source, Tail(order))

\* What reading a gzip.Reader / bzip2 reader over the stream to its end
\* gives: the reader refuses a stream that does not start with its header,
\* holds anything but encoded bytes, or ends without the right trailer.
Inflate(stream, k) ==
    LET h == Len(Header(k))
        body == SubSeq(stream, h + 1, Len(stream) - 1)
    IN  IF /\ Len(stream) > h
           /\ SubSeq(stream, 1, h) = Header(k)
           /\ \A i \in 1..Len(body) : body[i] \in 256..511
           /\ stream[Len(stream)] = 512 + Len(body)
        THEN [ok |-> TRUE, data |-> [i \in 1..Len(body) |-> body[i] - 256]]
        ELSE [ok |-> FALSE, data |-> <<>>]

\* Decompress(stream), read to the end: Peek(10), detect, wrap.
Decompress(stream, order) ==
    LET bs == SubSeq(stream, 1, min(10, Len(stream)))
        compression == DetectCompression(bs, order)
    IN  IF compression = "Uncompressed" THEN [ok |-> TRUE, data |-> stream]
        ELSE Inflate(stream, compression)

\* A call of DetectCompression on the given bytes.
Detect ==
    /\ \E order \in Orders : detected' = DetectCompression(given, order)
    /\ UNCHANGED <<given, args, made, wvars, rvars, xvars>>

\* --------------------------------------------------------- NewS3Writer
NoWriterMade == [partSize |-> 0, uploadID |-> NoUpload, buffer |-> <<>>,
                 partNumber |-> 0, parts |-> <<>>]
NotMade == [returned |-> FALSE, writer |-> NoWriterMade, err |-> "nil", calls |-> <<>>]
CreateOutcomes == {"ok", "error", "noUploadId"}
Failed(msg, calls) ==
    [returned |-> TRUE, writer |-> NoWriterMade, err |-> msg, calls |-> calls]
\* initMultipartUpload: one CreateMultipartUpload, answered with out.
initMultipartUpload(out) == <<[op |-> "CreateMultipartUpload", outcome |-> out]>>
\* The constructor with the session created before the arguments are looked at.
NewS3Writer_CreateFirst(a, out) ==
    LET calls == initMultipartUpload(out)
    IN  IF a.ctx = "nil" THEN Failed("context cannot be nil", calls)
        ELSE IF a.client = "nil" THEN Failed("S3 client cannot be nil", calls)
        ELSE IF a.bucket = "" THEN Failed("bucket name cannot be empty", calls)
        ELSE IF a.key = "" THEN Failed("object key cannot be empty", calls)
        ELSE IF a.partSize < MinPartSize
        THEN Failed("part size must be at least 5MiB", calls)
        ELSE IF out = "error" THEN Failed("failed to initiate multipart upload", calls)
        ELSE [returned |-> TRUE,
              writer |-> [partSize |-> a.partSize,
                          uploadID |-> IF out = "ok" THEN "upload-1" ELSE NoUpload,
                          buffer |-> <<>>, partNumber |-> 1, parts |-> <<>>],
              err |-> "nil", calls |-> calls]
NewS3Writer(a, out) ==
    IF a.ctx = "nil" THEN Failed("context cannot be nil", <<>>)
    ELSE IF a.client = "nil" THEN Failed("S3 client cannot be nil", <<>>)
    ELSE IF a.bucket = "" THEN Failed("bucket name cannot be empty", <<>>)
    ELSE IF a.key = "" THEN Failed("object key cannot be empty", <<>>)
    ELSE IF a.partSize < MinPartSize
    THEN Failed("part size must be at least 5MiB", <<>>)
    ELSE LET calls == initMultipartUpload(out)
         IN  IF out = "error" THEN Failed("failed to initiate multipart upload", calls)
             ELSE [returned |-> TRUE,
                   writer |-> [partSize |-> a.partSize,
                               uploadID |-> IF out = "ok" THEN "upload-1" ELSE NoUpload,
                               buffer |-> <<>>, partNumber |-> 1, parts |-> <<>>],
                   err |-> "nil", calls |-> calls]
\* The arguments a caller may pass.
Arguments ==
    [ctx : {"nil", "ctx"}, client : {"nil", "client"}, bucket : {"", "b"},
     key : {"", "k"}, partSize : 0..MaxPartSize]
\* The one call of the constructor.
New ==
    /\ ~made.returned
    /\ \E out \in CreateOutcomes : made' = NewS3Writer(args, out)
    /\ UNCHANGED <<args, given, detected, wvars, rvars, xvars>>

\* ------------------------------------------------ NewCompressedS3Writer
\* A Compression value that is none of the three constants.
UnknownKind == "Unknown"
\* setupCompressor: the error it returns; built says whether bzip2.NewWriter
\* could build its writer.
setupCompressor(compression, built) ==
    IF compression = "Gzip" THEN "nil"
    ELSE IF compression = "Bzip2"
    THEN IF built THEN "nil" ELSE "failed to create bzip2 writer"
    ELSE IF compression = "Uncompressed" THEN "nil"
    ELSE "unsupported compression type"
\* s3Writer.Abort() on the writer just made: one AbortMultipartUpload when
\* the session has an id.
AbortMade(w, abortOut) ==
    IF w.uploadID = NoUpload THEN <<>>
    ELSE <<[op |-> "AbortMultipartUpload", outcome |-> abortOut]>>
\* The constructor returning the compressor's error with the session left open.
NewCompressedS3Writer_NoCleanup(a, compression, out, built, abortOut) ==
    LET m == NewS3Writer(a, out)
        e == setupCompressor(compression, built)
    IN  IF m.err # "nil" THEN m
        ELSE IF e # "nil" THEN Failed(e, m.calls)
        ELSE m
NewCompressedS3Writer(a, compression, out, built, abortOut) ==
    LET m == NewS3Writer(a, out)
        e == setupCompressor(compression, built)
    IN  IF m.err # "nil" THEN m
        ELSE IF e # "nil" THEN Failed(e, m.calls \o AbortMade(m.writer, abortOut))
        ELSE m
\* The one call of the constructor.
NewCompressed ==
    /\ ~made.returned
    /\ \E out \in CreateOutcomes, built \in BOOLEAN, abortOut \in {"ok", "error"} :
          made' = NewCompressedS3Writer(args, compressionType, out, built, abortOut)
    /\ UNCHANGED <<args, given, detected, wvars, rvars, xvars>>

\* ------------------------------------------ CompressedS3Writer, shared
\* Several goroutines call Write, Close and Abort on one compressing writer
\* whose store is healthy. CompressedS3Writer has no lock of its own: a call
\* goes straight into the compressor, works on the compressor's state as it
\* found it, and leaves the state as it computed it. The calls it makes on
\* cw.s3Writer are serialized by w.mu and happen within one step here.
StartedCwCalls == Len(cwhist) + Cardinality({c \in Callers : wpc[c] # "idle"})

CallCompressed(c) ==
    /\ wpc[c] = "idle" /\ StartedCwCalls < MaxSharedCalls
    /\ \/ \E full \in BOOLEAN :
             wlocal' = [wlocal EXCEPT ![c] =
                           [NoCall EXCEPT !.op = "Write",
                                          !.p = BytesOfCall(StartedCwCalls + 1, 1),
                                          !.full = full]]
       \/ \E op \in {"Close", "Abort"} :
             wlocal' = [wlocal EXCEPT ![c] = [NoCall EXCEPT !.op = op]]
    /\ wpc' = [wpc EXCEPT ![c] = "compress"]
    /\ UNCHANGED <<wvars, wmu, cwvars, rvars, fvars>>

\* The call reads the compressor's fields.
EnterCompressor(c) ==
    /\ wpc[c] = "compress"
    /\ wlocal' = [wlocal EXCEPT ![c].z = compressor]
    /\ wpc' = [wpc EXCEPT ![c] = "encode"]
    /\ UNCHANGED <<wvars, wmu, cwvars, rvars, fvars>>

\* The call runs to its return.
LeaveCompressor(c) ==
    /\ wpc[c] = "encode"
    /\ LET st == [w |-> W, z |-> wlocal[c].z]
           id == Len(cwhist) + 1
           r == IF wlocal[c].op = "Write"
                THEN CwWrite(st, wlocal[c].p, wlocal[c].full, ctxDone, <<>>, id)
                ELSE IF wlocal[c].op = "Close" THEN CwClose(st, ctxDone, <<>>, id)
                ELSE CwAbort(st, ctxDone, <<>>, id)
       IN  /\ SetWriter(r.st.w)
           /\ compressor' = r.st.z
           /\ cwhist' = Append(cwhist, CwCall(wlocal[c].op, wlocal[c].p, r))
    /\ wpc' = [wpc EXCEPT ![c] = "idle"]
    /\ UNCHANGED <<partSize, uploadID, ctxDone, hist, compressionType, wmu, wlocal, rvars, fvars>>

\* ------------------------------------------------------ specifications
\* NewS3Writer returned a writer: the session exists, nothing is buffered.
WriterInit ==
    /\ partSize \in MinPartSize..MaxPartSize
    /\ uploadID = "upload-1"
    /\ buffer = <<>>
    /\ partNumber = 1
    /\ parts = <<>>
    /\ closed = FALSE
    /\ err = Nil
    /\ ctxDone = FALSE
    /\ requests = <<>>
    /\ hist = <<>>

\* No writer in this run.
NoWriter ==
    /\ partSize = MinPartSize
    /\ uploadID = NoUpload
    /\ buffer = <<>>
    /\ partNumber = 1
    /\ parts = <<>>
    /\ closed = FALSE
    /\ err = Nil
    /\ ctxDone = FALSE
    /\ requests = <<>>
    /\ hist = <<>>

\* NewChunkStreamer over a range that lies inside the object.
ReaderInit ==
    /\ offset \in 0..ObjLen
    /\ size \in 0..(ObjLen - offset)
    /\ chunkSize \in 1..MaxChunk
    /\ currentOffset = offset
    /\ eof = FALSE
    /\ csBuffer = <<>>
    /\ fetches = <<>>
    /\ reads = <<>>
    /\ mu = Unlocked
    /\ pc = [c \in Callers |-> "idle"]
    /\ local = [c \in Callers |-> NoLocal]

\* No reader in this run.
NoReader ==
    /\ offset = 0
    /\ size = 0
    /\ chunkSize = 1
    /\ currentOffset = 0
    /\ eof = FALSE
    /\ csBuffer = <<>>
    /\ fetches = <<>>
    /\ reads = <<>>
    /\ mu = Unlocked
    /\ pc = [c \in Callers |-> "idle"]
    /\ local = [c \in Callers |-> NoLocal]

\* No call of DetectCompression in this run.
NoDetection == given = <<>> /\ detected = "none"
\* No call of the constructor in this run.
NoArgs == [ctx |-> "nil", client |-> "nil", bucket |-> "", key |-> "", partSize |-> 0]
NoConstruction == args = NoArgs /\ made = NotMade
\* No shared writer and no compressed writer in this run.
NoShared ==
    /\ wmu = Unlocked
    /\ wpc = [c \in Callers |-> "idle"]
    /\ wlocal = [c \in Callers |-> NoCall]
    /\ compressionType = "Uncompressed"
    /\ compressor = NoCompressor
    /\ cwhist = <<>>
\* Nothing but the component under study in this run.
NoExtras == NoShared /\ NoDetection /\ NoConstruction

WriterNext == WriteCall \/ CloseCall \/ AbortCall \/ Cancel
WriterOnly == WriterInit /\ NoReader /\ NoExtras
SpecWriter == WriterOnly /\ [][WriterNext]_vars

ReaderNext == ReadCall
ReaderOnly == ReaderInit /\ NoWriter /\ NoExtras
SpecReader == ReaderOnly /\ [][ReaderNext]_vars

\* A caller that keeps calling Read until it is told the stream has ended;
\* the store refuses at most MaxFetchFailures fetches.
ReaderLiveNext == ReadToEnd
SpecReaderLive == ReaderOnly /\ [][ReaderLiveNext]_vars /\ WF_vars(ReadToEnd)

\* NewCompressedS3Writer returned a writer of one of the three kinds.
CompressedOnly ==
    /\ WriterInit /\ NoReader
    /\ wmu = Unlocked
    /\ wpc = [c \in Callers |-> "idle"]
    /\ wlocal = [c \in Callers |-> NoCall]
    /\ compressionType \in Kinds
    /\ compressor = NoCompressor
    /\ cwhist = <<>>
    /\ NoDetection /\ NoConstruction
CompressedNext == CwWriteCall \/ CwCloseCall \/ CwAbortCall
SpecCompressed == CompressedOnly /\ [][CompressedNext]_vars

\* A writer and a reader side by side, a few calls between them.
CoreOnly == WriterInit /\ ReaderInit /\ offset = 1 /\ NoExtras
CoreBudget == Len(hist) + Len(reads) < MaxCoreCalls
CoreNext ==
    \/ CoreBudget /\ WriteCall
    \/ CoreBudget /\ CloseCall
    \/ CoreBudget /\ AbortCall
    \/ CoreBudget /\ Cancel
    \/ CoreBudget /\ ReadCall
SpecCore == CoreOnly /\ [][CoreNext]_vars

\* The byte values that occur in the signatures and headers, and two others.
DetectBytes ==
    {0, 9} \cup {Header("Gzip")[i] : i \in 1..Len(Header("Gzip"))}
           \cup {Bzip2Magic[i] : i \in 1..Len(Bzip2Magic)}
Sources == UNION {[1..n -> DetectBytes] : n \in 0..MaxSourceLen}
\* DetectCompression is about to be called on some bytes.
DetectOnly ==
    /\ NoWriter /\ NoReader /\ NoShared /\ NoConstruction
    /\ given \in Sources
    /\ detected = "none"
DetectNext == Detect
SpecDetect == DetectOnly /\ [][DetectNext]_vars

\* NewS3Writer is about to be called with some arguments.
NewOnly ==
    /\ NoWriter /\ NoReader /\ NoShared /\ NoDetection
    /\ args \in Arguments
    /\ made = NotMade
NewNext == New
SpecNew == NewOnly /\ [][NewNext]_vars

\* NewCompressedS3Writer is about to be called with some arguments and some
\* compression value.
NewCompressedOnly ==
    /\ NoWriter /\ NoReader /\ NoDetection
    /\ wmu = Unlocked
    /\ wpc = [c \in Callers |-> "idle"]
    /\ wlocal = [c \in Callers |-> NoCall]
    /\ compressionType \in Kinds \cup {UnknownKind}
    /\ compressor = NoCompressor
    /\ cwhist = <<>>
    /\ args \in Arguments
    /\ made = NotMade
NewCompressedNext == NewCompressed
SpecNewCompressed == NewCompressedOnly /\ [][NewCompressedNext]_vars

\* One gzip or bzip2 writer shared by the callers.
SharedCompressedOnly == CompressedOnly /\ compressionType # "Uncompressed"
SharedCompressedNext ==
    \E c \in Callers : CallCompressed(c) \/ EnterCompressor(c) \/ LeaveCompressor(c)
SpecSharedCompressed == SharedCompressedOnly /\ [][SharedCompressedNext]_vars

SharedWriterNext ==
    \E c \in Callers :
        CallWriter(c) \/ LockWriter(c) \/ EnterWriter(c) \/ RunWriter(c) \/ UnlockWriter(c)
\* One writer shared by the callers, nobody past the lock.
SharedWriterOnly == WriterInit /\ NoReader /\ NoExtras
SpecSharedWriter == SharedWriterOnly /\ [][SharedWriterNext]_vars

SharedNext ==
    \E c \in Callers : CallRead(c) \/ Lock(c) \/ Begin(c) \/ Respond(c) \/ Unlock(c)
\* One reader, constructed at the object's second byte, shared by the callers.
SharedOnly == ReaderInit /\ offset = 1 /\ NoWriter /\ NoExtras
SpecShared == SharedOnly /\ [][SharedNext]_vars

\* ============================================================== claims
\* ---- helpers over the logs
IsPrefix(a, b) == Len(a) <= Len(b) /\ a = SubSeq(b, 1, Len(a))

\* The Read calls that came before the first one that returned end-of-stream.
BeforeFirstEOF(rs) ==
    IF \E i \in 1..Len(rs) : rs[i].err = EOF
    THEN SubSeq(rs, 1, (CHOOSE i \in 1..Len(rs) :
                            /\ rs[i].err = EOF
                            /\ \A j \in 1..(i - 1) : rs[j].err # EOF) - 1)
    ELSE rs
RECURSIVE Delivered(_)
\* The bytes returned by a sequence of Read calls, concatenated.
Delivered(rs) ==
    IF rs = <<>> THEN <<>> ELSE Delivered(SubSeq(rs, 1, Len(rs) - 1)) \o rs[Len(rs)].data
SawEOF == \E i \in 1..Len(reads) : reads[i].err = EOF
\* object[offset .. offset+size-1], offsets counted from 0.
RequestedRange == SubSeq(Object, offset + 1, offset + size)

\* C1: with no failed fetch, the bytes returned by the Read calls up to the
\* first end-of-stream, concatenated, are a prefix of object[offset ..
\* offset+size-1] at every moment and are exactly that range once
\* end-of-stream has been returned, for every chunk size and every sequence
\* of destination sizes.
C1_ReadReproducesRange ==
    FailedFetches(fetches) = 0 =>
        /\ IsPrefix(Delivered(BeforeFirstEOF(reads)), RequestedRange)
        /\ SawEOF => Delivered(BeforeFirstEOF(reads)) = RequestedRange
\* A range of three bytes at offset 1 read to the end in chunks of two bytes
\* with destinations of different sizes, a chunk remainder carried over.
C1_Witness ==
    /\ SawEOF /\ FailedFetches(fetches) = 0
    /\ offset = 1 /\ size = 3 /\ chunkSize = 2
    /\ \E i, j \in 1..Len(reads) : reads[i].b # reads[j].b
    /\ \E i \in 1..Len(reads) : reads[i].err = Nil /\ Len(reads[i].data) < chunkSize
    /\ Len(fetches) = 2


\* ---- helpers over the writer's logs
Last(h) == h[Len(h)]
IsCall(h, i, op) == i \in 1..Len(h) /\ h[i].op = op
AbortCalled(h) == \E i \in 1..Len(h) : h[i].op = "Abort"
IsUpload(r) == r.op = "UploadPart"
IsComplete(r) == r.op = "CompleteMultipartUpload"
IsAbort(r) == r.op = "AbortMultipartUpload"
NoStoreFailure(reqs) == \A i \in 1..Len(reqs) : reqs[i].outcome = "ok"
RECURSIVE BodiesOf(_, _)
\* The bodies of the UploadPart requests sent under part number k, in order.
BodiesOf(reqs, k) ==
    IF reqs = <<>> THEN <<>>
    ELSE BodiesOf(SubSeq(reqs, 1, Len(reqs) - 1), k)
         \o (IF IsUpload(Last(reqs)) /\ Last(reqs).num = k THEN Last(reqs).body ELSE <<>>)
RECURSIVE UploadedUpTo(_, _)
UploadedUpTo(reqs, k) ==
    IF k = 0 THEN <<>> ELSE UploadedUpTo(reqs, k - 1) \o BodiesOf(reqs, k)
\* The bodies passed to UploadPart, concatenated in ascending part number.
UploadedData(reqs) == UploadedUpTo(reqs, Len(reqs) + 1)
\* The caller made Write calls only and then one Close, which returned nil.
WritesThenClose(h) ==
    /\ Len(h) >= 1
    /\ \A i \in 1..(Len(h) - 1) : h[i].op = "Write"
    /\ Last(h).op = "Close" /\ Last(h).err = Nil

\* C2: when the input was handed over in successive Write calls (any split),
\* no store request failed and the Close that followed returned nil, the
\* bodies passed to UploadPart, concatenated in ascending part-number
\* order, are exactly the input.
C2_PartsConcatEqualInput ==
    (WritesThenClose(hist) /\ NoStoreFailure(requests))
        => UploadedData(requests) = Input(hist)
\* Five bytes written as 3 + 2 with part size 2: two full parts flushed by
\* Write and an undersized last part flushed by Close.
C2_Witness ==
    /\ WritesThenClose(hist) /\ NoStoreFailure(requests)
    /\ partSize = 2 /\ Len(hist) = 3
    /\ Len(hist[1].p) = 3 /\ Len(hist[2].p) = 2
    /\ Len(SelectSeq(requests, IsUpload)) = 3

\* C3: the completed-parts list holds the numbers 1, 2, ..., k in order and
\* the counter is k + 1; every recorded part carries the number under which
\* the UploadPart request that returned its entity tag was sent, every
\* accepted UploadPart is recorded, and every list submitted to
\* CompleteMultipartUpload has these same properties.
NumberedFromOne(ps) == \A i \in 1..Len(ps) : ps[i].PartNumber = i
UploadedUnderRecordedNumber(ps, reqs) ==
    \A i \in 1..Len(ps) :
        \E j \in 1..Len(reqs) :
            /\ IsUpload(reqs[j]) /\ reqs[j].etag = ps[i].ETag
            /\ reqs[j].num = ps[i].PartNumber
AcceptedUpload(r) == IsUpload(r) /\ r.etag # NoETag
C3_PartNumbersMatch ==
    /\ partNumber = Len(parts) + 1
    /\ NumberedFromOne(parts)
    /\ UploadedUnderRecordedNumber(parts, requests)
    /\ Len(SelectSeq(requests, AcceptedUpload)) = Len(parts)
    /\ \A j \in 1..Len(requests) :
          IsComplete(requests[j]) =>
              /\ NumberedFromOne(requests[j].parts)
              /\ UploadedUnderRecordedNumber(requests[j].parts, SubSeq(requests, 1, j - 1))
              /\ requests[j].parts = parts
\* Three parts were uploaded, one of them after a failed attempt, and the
\* list was submitted to CompleteMultipartUpload.
C3_Witness ==
    /\ Len(parts) = 3
    /\ \E j \in 1..Len(requests) : IsUpload(requests[j]) /\ requests[j].outcome # "ok"
    /\ \E j \in 1..Len(requests) : IsComplete(requests[j]) /\ Len(requests[j].parts) = 3
\* ---- one call: the step from hist to hist'
Called(op) == hist' # hist /\ Last(hist').op = op
Returned_(e) == Last(hist').err = e
NoRequest == requests' = requests
RECURSIVE TotalAccepted(_)
\* The byte counts returned by the Write calls, summed.
TotalAccepted(h) ==
    IF h = <<>> THEN 0 ELSE TotalAccepted(SubSeq(h, 1, Len(h) - 1)) + Last(h).n
CloseCalled(h) == \E i \in 1..Len(h) : h[i].op = "Close"
\* A Write returned an error because flushing a part failed.
FlushFailure(c) == c.op = "Write" /\ c.err.kind \in {"upload", "etag", "maxparts"}

\* C4 (as claimed): on a writer that has recorded an error, every later
\* Write or Close returns that same error and sends nothing to the store.
\* Stated for the calls the cancellation and closed checks let through.
C4_StickyErrorNoIO ==
    [][(hist' # hist /\ Last(hist').op \in {"Write", "Close"}
            /\ err # Nil /\ ~closed /\ ~ctxDone)
          => (Returned_(err) /\ NoRequest)]_vars

\* C5: after a Write returned a flush error, every later Write made while
\* the writer is open and the context live returns that same error with 0
\* bytes, sends nothing to the store and leaves the buffer, the part counter
\* and the completed parts as they were.
C5_WriteAfterFlushError ==
    [][(Called("Write") /\ ~closed /\ ~ctxDone)
          => \A i \in 1..Len(hist) :
                FlushFailure(hist[i]) =>
                    /\ Returned_(hist[i].err) /\ Last(hist').n = 0
                    /\ NoRequest
                    /\ buffer' = buffer /\ partNumber' = partNumber /\ parts' = parts]_vars
\* A Write failed on its flush with the buffer full, and two more Write
\* calls with bytes to write followed on the open writer.
C5_Witness ==
    /\ Len(hist) >= 3 /\ ~closed /\ ~ctxDone
    /\ FlushFailure(hist[1]) /\ Len(buffer) = partSize
    /\ hist[2].op = "Write" /\ Len(hist[2].p) > 0 /\ hist[2].err = hist[1].err
    /\ hist[3].op = "Write" /\ Len(hist[3].p) > 0 /\ hist[3].err = hist[1].err

C7_AbortNeverCompletes ==
    [][hist' # hist =>
          /\ Called("Abort") =>
                /\ Len(requests') = Len(requests) + 1
                /\ IsAbort(Last(requests'))
          /\ AbortCalled(hist') =>
                Len(SelectSeq(requests', IsComplete)) = Len(SelectSeq(requests, IsComplete))]_vars
\* Abort after a partial write, followed by a Close and a Write.
C7_Witness ==
    /\ Len(hist) = 4
    /\ hist[1].op = "Write" /\ hist[1].n > 0 /\ hist[1].err = Nil
    /\ hist[2].op = "Abort" /\ hist[3].op = "Close" /\ hist[4].op = "Write"
    /\ ~hist[3].ctx
    /\ \E j \in 1..Len(requests) : IsAbort(requests[j])

\* C8 (as claimed): a Close called after an earlier Close sends nothing to the store;
\* with the context live it returns the recorded error (or nil), and two
\* consecutive Close calls that saw the same context state return the same.
C8_CloseIdempotent ==
    [][(Called("Close") /\ CloseCalled(hist))
          => /\ NoRequest
             /\ ~ctxDone => Returned_(err)
             /\ (Last(hist).op = "Close" /\ Last(hist).ctx = ctxDone)
                   => Returned_(Last(hist).err)]_vars

\* C9: a Write on a writer that Close or Abort has terminated returns an
\* error and 0 bytes, sends nothing to the store and leaves the buffer and
\* the completed parts as they were.
C9_WriteAfterTermination ==
    [][(Called("Write") /\ closed)
          => /\ Last(hist').err # Nil /\ Last(hist').n = 0
             /\ NoRequest
             /\ buffer' = buffer /\ parts' = parts /\ partNumber' = partNumber]_vars
\* A non-empty Write after a successful Close, context live.
C9_Witness ==
    /\ Len(hist) = 3 /\ hist[1].op = "Write" /\ hist[1].n > 0
    /\ hist[2].op = "Close" /\ hist[2].err = Nil
    /\ hist[3].op = "Write" /\ Len(hist[3].p) > 0 /\ hist[3].err.kind = "closed"

\* C10 (as claimed): a Close called after Abort returns a non-nil error.
C10_CloseAfterAbortFails ==
    [][(Called("Close") /\ AbortCalled(hist)) => Last(hist').err # Nil]_vars

\* ---- the session as the store sees it
CompletedAt(reqs, j) == IsComplete(reqs[j]) /\ reqs[j].outcome # "error"
AbortsIn(reqs) == Len(SelectSeq(reqs, IsAbort))

\* C11 (as claimed): the store never receives an AbortMultipartUpload after
\* a CompleteMultipartUpload that succeeded, and never receives a second
\* AbortMultipartUpload for the session.
C11_TerminatedExactlyOnce ==
    /\ \A j \in 1..Len(requests) :
          CompletedAt(requests, j) =>
              \A k \in (j + 1)..Len(requests) : ~IsAbort(requests[k])
    /\ AbortsIn(requests) <= 1

\* ---- the requests one call sent
NewRequests == SubSeq(requests', Len(requests) + 1, Len(requests'))
\* The flush of the rest failed: the store refused the part, returned no
\* entity tag, or the part number was over the ceiling.
FlushFailed(new) ==
    \/ \E j \in 1..Len(new) : IsUpload(new[j]) /\ new[j].outcome # "ok"
    \/ buffer # <<>> /\ partNumber > MaxParts
\* The finalize failed: the store refused it, or there was no part to submit.
CompleteFailed(new) ==
    \/ \E j \in 1..Len(new) : IsComplete(new[j]) /\ new[j].outcome = "error"
    \/ buffer = <<>> /\ parts = <<>>
FlushOrFinalizeError == {"upload", "etag", "maxparts", "complete", "noparts"}

\* C12: when, during a Close that got past the cancellation and closed
\* checks, the flush of the remaining buffer or the finalize fails, the
\* last request of the call is the one AbortMultipartUpload it sends, and
\* Close returns (and records) the flush or finalize error created by this
\* call, whether the abort succeeded or not.
C12_CloseFailureAborts ==
    [][(Called("Close") /\ ~ctxDone /\ ~closed
            /\ (FlushFailed(NewRequests) \/ CompleteFailed(NewRequests)))
          => /\ NewRequests # <<>> /\ IsAbort(Last(NewRequests))
             /\ AbortsIn(NewRequests) = 1
             /\ Last(hist').err.kind \in FlushOrFinalizeError
             /\ Last(hist').err.id = Len(hist')
             /\ FlushFailed(NewRequests) <=> Last(hist').err.kind \in {"upload", "etag", "maxparts"}
             /\ err' = Last(hist').err]_vars
\* The store refused the CompleteMultipartUpload of a Close and then refused
\* the abort too; Close returned the completion error.
C12_Witness ==
    /\ Len(hist) = 2 /\ hist[2].op = "Close" /\ hist[2].err.kind = "complete"
    /\ Len(requests) = 3 /\ IsUpload(requests[1]) /\ IsComplete(requests[2])
    /\ IsAbort(requests[3]) /\ requests[3].outcome = "error"

\* The call just made was rejected on a protocol limit: the part count was
\* exceeded at a flush, or there was no part to complete.
ProtocolLimitError(c, id) == c.err.kind \in {"maxparts", "noparts"} /\ c.err.id = id

\* C13 (as claimed): whenever a Write or a Close is rejected on a protocol
\* limit, the writer sends AbortMultipartUpload before the call returns.
C13_ProtocolLimitAborts ==
    [][(hist' # hist /\ ProtocolLimitError(Last(hist'), Len(hist')))
          => \E j \in 1..Len(NewRequests) : IsAbort(NewRequests[j])]_vars

\* C13 (amended): a Close rejected on a protocol limit (part count exceeded
\* at its flush, or no part to complete) sends one AbortMultipartUpload as
\* its last request before it returns. A Write whose flush is rejected
\* because the part count is exceeded records the error and returns it with
\* the writer still open and without any AbortMultipartUpload: the session
\* stays with the store until the caller calls Abort or Close.
C13_ProtocolLimitAbortsInClose ==
    [][(hist' # hist /\ ProtocolLimitError(Last(hist'), Len(hist')))
          => /\ Called("Close") =>
                   /\ NewRequests # <<>> /\ IsAbort(Last(NewRequests))
                   /\ AbortsIn(NewRequests) = 1
             /\ Called("Write") =>
                   /\ Last(hist').err.kind = "maxparts"
                   /\ AbortsIn(NewRequests) = 0
                   /\ err' = Last(hist').err /\ ~closed'
                   /\ partNumber' = MaxParts + 1 /\ Len(buffer') = partSize]_vars
\* The fourth Write filled the buffer after MaxParts parts had been uploaded:
\* the flush was rejected and the store has seen no abort.
C13_Witness ==
    /\ Len(hist) = 4 /\ hist[4].op = "Write" /\ hist[4].err.kind = "maxparts"
    /\ Len(parts) = MaxParts /\ ~closed
    /\ AbortsIn(requests) = 0

UploadsIn(reqs) == Len(SelectSeq(reqs, IsUpload))
\* The call just made attempted a flush with the counter over the ceiling.
CeilingHit == Last(hist').err.kind = "maxparts" /\ Last(hist').err.id = Len(hist')

\* C14: no UploadPart request carries a part number above the ceiling and
\* the completed parts never outnumber it. A call in which a flush is
\* attempted with the counter over the ceiling returns an error; the
\* rejected flush sends no UploadPart and leaves the buffer, the counter and
\* the completed parts as they were (in Close: as before the call; in Write:
\* as the accepted uploads of the same call left them, buffer still full).
C14_PartCeiling ==
    [][hist' # hist =>
          /\ \A j \in 1..Len(requests') :
                IsUpload(requests'[j]) => requests'[j].num \in 1..MaxParts
          /\ Len(parts') <= MaxParts /\ partNumber' <= MaxParts + 1
          /\ (Called("Close") /\ ~ctxDone /\ ~closed /\ buffer # <<>> /\ partNumber > MaxParts)
                => CeilingHit
          /\ CeilingHit =>
                /\ Last(hist').err # Nil
                /\ partNumber' = MaxParts + 1 /\ Len(parts') = MaxParts
                /\ UploadsIn(NewRequests) = partNumber' - partNumber
                /\ UploadsIn(NewRequests) = Len(parts') - Len(parts)
                /\ \A j \in 1..Len(NewRequests) :
                      IsUpload(NewRequests[j]) => NewRequests[j].outcome = "ok"
                /\ Called("Close") =>
                      /\ UploadsIn(NewRequests) = 0
                      /\ buffer' = buffer /\ partNumber' = partNumber /\ parts' = parts
                /\ Called("Write") => Len(buffer') = partSize]_vars
\* Three Writes left MaxParts parts uploaded and one byte buffered; the
\* Close that followed was rejected at its flush and sent only the abort.
C14_Witness ==
    /\ Len(hist) = 4 /\ hist[4].op = "Close" /\ hist[4].err.kind = "maxparts"
    /\ Len(parts) = MaxParts /\ partNumber = MaxParts + 1 /\ buffer # <<>>
    /\ UploadsIn(requests) = MaxParts /\ IsAbort(Last(requests))

ReadMade == reads' # reads
Fetched == Len(fetches') = Len(fetches) + 1
FetchFailed == Fetched /\ ~Last(fetches').ok
SameRange(f, g) == f.start = g.start /\ f.end = g.end

\* C16: a Read whose range fetch fails returns no bytes and an error, and
\* leaves the cursor, the leftover buffer and the end-of-stream flag as they
\* were; the Read that follows a failed fetch sends a fetch for exactly the
\* same range (no sticky error); and with failed fetches in between, the
\* bytes delivered remain a prefix of the requested range and are exactly
\* that range once end-of-stream is returned.
C16_FailedFetchRetried ==
    [][ReadMade =>
          /\ FetchFailed =>
                /\ Last(reads').data = <<>> /\ Last(reads').err.kind = "download"
                /\ Last(reads').err.part = Last(fetches').start
                /\ currentOffset' = currentOffset /\ csBuffer' = csBuffer /\ eof' = eof
          /\ (fetches # <<>> /\ ~Last(fetches).ok) =>
                /\ Fetched /\ SameRange(Last(fetches'), Last(fetches))
                /\ Last(fetches').ok => Last(reads').err = Nil /\ Last(reads').data # <<>>
          /\ IsPrefix(Delivered(BeforeFirstEOF(reads')), RequestedRange)
          /\ (\E i \in 1..Len(reads') : reads'[i].err = EOF)
                => Delivered(BeforeFirstEOF(reads')) = RequestedRange]_vars
\* The second fetch of a three-byte range failed, the next Read fetched the
\* same range again and got it, and the stream was read to its end.
C16_Witness ==
    /\ SawEOF /\ size = 3 /\ chunkSize = 2 /\ Len(fetches) = 3
    /\ fetches[1].ok /\ ~fetches[2].ok /\ fetches[3].ok
    /\ SameRange(fetches[2], fetches[3])
    /\ Delivered(BeforeFirstEOF(reads)) = RequestedRange

\* ceil(n / c)
CeilDiv(n, c) == (n + c - 1) \div c
\* The k-th range of a stream cut into chunks: inclusive, from 0.
KthRange(k) == [start |-> offset + (k - 1) * chunkSize,
                end |-> min(offset + k * chunkSize - 1, offset + size - 1)]

\* C17: with no failed fetch, the k-th range fetch asks for the inclusive
\* range [offset+(k-1)c, min(offset+k*c-1, offset+size-1)], so the ranges
\* are contiguous, disjoint, at most c bytes long and end inside the
\* requested range; there are never more than ceil(size/c) of them and
\* exactly that many once end-of-stream has been returned.
C17_RangesCoverExactly ==
    FailedFetches(fetches) = 0 =>
        /\ \A k \in 1..Len(fetches) :
              /\ SameRange(fetches[k], KthRange(k))
              /\ fetches[k].end - fetches[k].start + 1 \in 1..chunkSize
              /\ fetches[k].end <= offset + size - 1
              /\ k > 1 => fetches[k].start = fetches[k - 1].end + 1
        /\ Len(fetches) <= CeilDiv(size, chunkSize)
        /\ SawEOF => Len(fetches) = CeilDiv(size, chunkSize)
\* Four bytes read to the end in chunks of three: two fetches, the second
\* one cut short at the end of the range.
C17_Witness ==
    /\ SawEOF /\ FailedFetches(fetches) = 0
    /\ offset = 0 /\ size = 4 /\ chunkSize = 3
    /\ Len(fetches) = 2
    /\ fetches[1].start = 0 /\ fetches[1].end = 2
    /\ fetches[2].start = 3 /\ fetches[2].end = 3

\* The shapes of what a Read returns.
BytesNoError(rd) == Len(rd.data) > 0 /\ rd.err = Nil
EndOfStream(rd) == rd.data = <<>> /\ rd.err = EOF
FetchError(rd) == rd.data = <<>> /\ rd.err.kind = "download"

\* C18: every Read into a destination of at least one byte returns bytes
\* and no error, or no bytes and end-of-stream, or no bytes and a fetch
\* error: never no bytes with a nil error, never bytes together with an
\* error or end-of-stream, never more bytes than the destination holds.
C18_ReadReturnShape ==
    \A i \in 1..Len(reads) :
        /\ BytesNoError(reads[i]) \/ EndOfStream(reads[i]) \/ FetchError(reads[i])
        /\ ~(reads[i].data = <<>> /\ reads[i].err = Nil)
        /\ ~(reads[i].data # <<>> /\ reads[i].err # Nil)
        /\ Len(reads[i].data) <= reads[i].b
\* One run in which Read returned all three shapes, and bytes both from a
\* fetch and from the leftover of one.
C18_Witness ==
    /\ \E i \in 1..Len(reads) : BytesNoError(reads[i])
    /\ \E i \in 1..Len(reads) : EndOfStream(reads[i])
    /\ \E i \in 1..Len(reads) : FetchError(reads[i])
    /\ Len(SelectSeq(reads, BytesNoError)) > Len(fetches) - 1

\* C19: a reader constructed with size 0 returns no bytes and end-of-stream
\* on its first Read, and on every later one, without sending any range
\* fetch, wherever in the object its offset lies.
C19_EmptyRangeImmediateEOF ==
    size = 0 =>
        /\ \A i \in 1..Len(reads) : EndOfStream(reads[i])
        /\ fetches = <<>>
        /\ reads # <<>> => eof
\* Two Reads of an empty range that starts inside the object.
C19_Witness ==
    /\ size = 0 /\ offset = 1 /\ Len(reads) = 2
    /\ EndOfStream(reads[1]) /\ fetches = <<>>

\* ---- several callers on one reader
\* The callers that are past c.mu.Lock() and have not yet unlocked.
InRead == {c \in Callers : pc[c] \in {"body", "fetching", "unlock"}}
InFlight == {c \in Callers : pc[c] = "fetching"}
\* The places where byte x was handed to a caller.
Holders(x) == {<<c, i>> \in Callers \X (1..ObjLen) :
                  i <= Len(local[c].got) /\ local[c].got[i] = x}
InSeq(x, s) == \E i \in 1..Len(s) : s[i] = x

\* C20: with several callers in Read on one ChunkStreamer, at most one of
\* them is past the lock at any time (from the first check to the return),
\* so at most one range fetch is in flight; a range that was fetched is never
\* requested again; the bytes returned, in the order the calls complete,
\* are a prefix of the requested range, each byte handed to exactly one
\* caller and all of them once the reader is drained; and between calls the
\* cursor stands exactly behind the bytes delivered and left over.
C20_ReadsSerialized ==
    /\ Cardinality(InRead) <= 1
    /\ InRead = (IF mu = Unlocked THEN {} ELSE {mu})
    /\ Cardinality(InFlight) <= 1
    /\ \A i, j \in 1..Len(fetches) :
          (i < j /\ fetches[i].ok) => fetches[j].start > fetches[i].end
    /\ IsPrefix(Delivered(reads), RequestedRange)
    /\ \A x \in 1..ObjLen :
          Cardinality(Holders(x)) = (IF InSeq(x, Delivered(reads)) THEN 1 ELSE 0)
    /\ mu = Unlocked =>
          /\ currentOffset = offset + Len(Delivered(reads)) + Len(csBuffer)
          /\ IsPrefix(Delivered(reads) \o csBuffer, RequestedRange)
          /\ (eof /\ csBuffer = <<>>) => Delivered(reads) = RequestedRange
\* One caller waits for the store's answer while holding the lock, the
\* other, which was given bytes by an earlier Read, waits at the lock.
C20_Witness ==
    /\ pc[1] = "fetching" /\ mu = 1
    /\ pc[2] = "lock" /\ local[2].got # <<>>
    /\ Len(fetches) = 1 /\ local[1].start = fetches[1].end + 1

\* ---- several callers on one writer
\* The callers that are past w.mu.Lock() and have not yet unlocked.
InWriter == {c \in Callers : wpc[c] \in {"body", "io", "unlock"}}
\* The callers whose method is talking to the store.
AtStore == {c \in Callers : wpc[c] = "io"}
RECURSIVE AcceptedBytes(_)
\* The bytes the completed Write calls accepted, in the order they returned.
AcceptedBytes(h) ==
    IF h = <<>> THEN <<>>
    ELSE AcceptedBytes(SubSeq(h, 1, Len(h) - 1)) \o SubSeq(Last(h).p, 1, Last(h).n)
\* What the writer has taken in: the uploaded bodies in part order, then
\* what is still buffered.
TakenIn == UploadedData(requests) \o buffer

\* C21: with several callers in Write, Close and Abort on one S3Writer, at
\* most one of them is past the lock at any time, so at most one call is
\* sending the writer's requests to the store (part uploads one after the
\* other); and whenever the lock is free, the uploaded bodies followed by
\* the buffer are the accepted bytes of the completed Write calls, each
\* call's bytes in one piece, in the order the calls returned.
C21_WriterCallsSerialized ==
    /\ Cardinality(InWriter) <= 1
    /\ InWriter = (IF wmu = Unlocked THEN {} ELSE {wmu})
    /\ Cardinality(AtStore) <= 1
    /\ wmu = Unlocked => TakenIn = AcceptedBytes(hist)
    /\ \A i \in 1..Len(hist) :
          (hist[i].op = "Write" /\ ~closed /\ wmu = Unlocked) => hist[i].n = Len(hist[i].p)
\* A Write has returned; the second Write is at the store with a full part
\* to upload, holding the lock, and a third one waits at the lock.
C21_Witness ==
    /\ Len(hist) = 1 /\ hist[1].op = "Write" /\ hist[1].n > 0
    /\ wpc[1] = "io" /\ wmu = 1 /\ wlocal[1].op = "Write"
    /\ Len(buffer) + Len(wlocal[1].p) >= partSize
    /\ wpc[2] = "lock" /\ wlocal[2].op = "Write"

\* ---- one call on the compressed writer: the step from cwhist to cwhist'
CwCalled(op) == cwhist' # cwhist /\ cwhist'[Len(cwhist')].op = op
RECURSIVE BodiesOfParts(_, _)
\* The bodies that were uploaded for the parts ps, in the order of ps; an
\* entity tag names the request that returned it.
BodiesOfParts(ps, reqs) ==
    IF ps = <<>> THEN <<>>
    ELSE BodiesOfParts(SubSeq(ps, 1, Len(ps) - 1), reqs) \o reqs[ps[Len(ps)].ETag[1]].body
\* The object the store assembled: the parts of the last request, a
\* CompleteMultipartUpload that succeeded.
Completed(reqs) == reqs # <<>> /\ CompletedAt(reqs, Len(reqs))
StoredObject(reqs) == BodiesOfParts(Last(reqs).parts, reqs)
\* What a compressor of kind k makes of the bytes data.
Compressed(k, data) == Header(k) \o Encode(data) \o Trailer(Len(data))

InCompressor == {c \in Callers : wpc[c] = "encode"}

\* C22 (as claimed): concurrent Write, Close and Abort calls on one
\* CompressedS3Writer are serialized including the compression step: the
\* compressor's state is never in use by two calls at the same time.
C22_CompressorNeverShared == Cardinality(InCompressor) <= 1

\* The caller wrote its bytes in Write calls that all succeeded and then
\* called Close, the store answering every request.
CwWritesThenClose(h) ==
    /\ h # <<>> /\ h[Len(h)].op = "Close"
    /\ \A i \in 1..(Len(h) - 1) : h[i].op = "Write" /\ h[i].err = Nil
\* Reading the stored object through Decompress gives the bytes data.
ReadsBackAs(reqs, data) ==
    /\ Completed(reqs)
    /\ \A order \in Orders :
          Decompress(StoredObject(reqs), order) = [ok |-> TRUE, data |-> data]

\* C24 (as claimed): for every input and each kind (Uncompressed, Gzip,
\* Bzip2), after the input was written through the compressed writer and
\* the writer closed, with a healthy store, reading the uploaded object
\* through Decompress yields the input.
C24_RoundTrip ==
    (CwWritesThenClose(cwhist) /\ NoStoreFailure(requests))
        => ReadsBackAs(requests, CwInput(cwhist))

\* What the claim says a byte sequence is: gzip when it starts with 1F 8B,
\* bzip2 when it starts with 42 5A 68, uncompressed otherwise.
Classified(s) ==
    IF Len(s) >= 2 /\ s[1] = 31 /\ s[2] = 139 THEN "Gzip"
    ELSE IF Len(s) >= 3 /\ s[1] = 66 /\ s[2] = 90 /\ s[3] = 104 THEN "Bzip2"
    ELSE "Uncompressed"

C26_GzipNeedsMethodByte ==
    detected = "Gzip" => Len(given) >= 3 /\ given[3] = 8

\* The arguments the constructor refuses.
InvalidArgs(a) ==
    \/ a.ctx = "nil" \/ a.client = "nil" \/ a.bucket = "" \/ a.key = ""
    \/ a.partSize < MinPartSize
\* The error names an argument that is at fault.
Describes(msg, a) ==
    \/ msg = "context cannot be nil" /\ a.ctx = "nil"
    \/ msg = "S3 client cannot be nil" /\ a.client = "nil"
    \/ msg = "bucket name cannot be empty" /\ a.bucket = ""
    \/ msg = "object key cannot be empty" /\ a.key = ""
    \/ msg = "part size must be at least 5MiB" /\ a.partSize < MinPartSize
SessionCreationFailed(calls) ==
    \E i \in 1..Len(calls) :
        calls[i].op = "CreateMultipartUpload" /\ calls[i].outcome = "error"

NewFetches == Len(fetches') - Len(fetches)
CompletesIn(reqs) == Len(SelectSeq(reqs, IsComplete))
\* The requests come in the order Close sends them: the flush, the
\* completion, the abort.
InCloseOrder(new) ==
    \A i, j \in 1..Len(new) :
        i < j => \/ IsUpload(new[i])
                 \/ IsComplete(new[i]) /\ IsAbort(new[j])

\* C28 (as claimed): no call of Read, Write, Close or Abort sends more than
\* one request to the store.
C28_OneRoundTripPerCall ==
    [][(hist' # hist \/ reads' # reads)
          => Len(NewRequests) + NewFetches <= 1]_vars

\* C28 (amended): a Read sends at most one range request and nothing to the
\* writer's session; an Abort sends one AbortMultipartUpload; a Write sends
\* only UploadPart requests, at most one per partSize bytes of what was
\* buffered plus what it was given; a Close sends at most one UploadPart,
\* at most one CompleteMultipartUpload and at most one AbortMultipartUpload,
\* in that order. No writer call sends a range request.
C28_RoundTripsPerCall ==
    [][/\ ReadMade => NewFetches <= 1 /\ NoRequest
       /\ hist' # hist => NewFetches = 0
       /\ Called("Abort") => Len(NewRequests) = 1 /\ IsAbort(NewRequests[1])
       /\ Called("Write") =>
             /\ UploadsIn(NewRequests) = Len(NewRequests)
             /\ Len(NewRequests) <= (Len(buffer) + Len(Last(hist').p)) \div partSize
       /\ Called("Close") =>
             /\ UploadsIn(NewRequests) <= 1
             /\ CompletesIn(NewRequests) <= 1
             /\ AbortsIn(NewRequests) <= 1
             /\ InCloseOrder(NewRequests)]_vars
\* A Close has sent three requests: the flush, the completion that the
\* store refused, and the abort.
C28_Witness ==
    /\ Len(hist) = 2 /\ hist[1].op = "Write" /\ hist[2].op = "Close"
    /\ Len(requests) = 3 /\ IsUpload(requests[1]) /\ IsAbort(requests[3])

\* C29: no UploadPart request has an empty body; every UploadPart request
\* sent by a Write carries exactly partSize bytes; a shorter body is sent
\* only by Close, as the last UploadPart of the session (Close marks the
\* writer closed, and a closed writer uploads nothing).
C29_OnlyFinalPartShort ==
    [][\A j \in 1..Len(NewRequests) :
          IsUpload(NewRequests[j]) =>
              /\ ~closed
              /\ NewRequests[j].body # <<>>
              /\ \/ Len(NewRequests[j].body) = partSize
                 \/ /\ Len(NewRequests[j].body) < partSize
                    /\ Called("Close") /\ closed'
                    /\ UploadsIn(NewRequests) = 1]_vars
\* Two full parts were flushed by Write and an undersized one by Close.
C29_Witness ==
    /\ CloseCalled(hist) /\ UploadsIn(requests) = 3
    /\ \E j \in 1..Len(requests) :
          /\ IsUpload(requests[j]) /\ Len(requests[j].body) < partSize
          /\ \A i \in 1..(j - 1) :
                IsUpload(requests[i]) /\ Len(requests[i].body) = partSize

\* The UploadPart requests in the order they were sent.
Uploads(reqs) == SelectSeq(reqs, IsUpload)
\* C30: after Write calls and a Close that returned nil with no store
\* failure, for an input of N > 0 bytes however it was split across the
\* Write calls, exactly ceil(N / partSize) parts were uploaded, numbered
\* from 1, part i holding input bytes (i-1)*partSize .. min(i*partSize, N)-1;
\* when N is a multiple of partSize there is no further part.
C30_PartsDependOnInputOnly ==
    (WritesThenClose(hist) /\ NoStoreFailure(requests) /\ Input(hist) # <<>>)
        => LET N == Len(Input(hist))
               ups == Uploads(requests)
           IN  /\ Len(ups) = CeilDiv(N, partSize)
               /\ \A i \in 1..Len(ups) :
                     /\ ups[i].num = i
                     /\ ups[i].body = SubSeq(Input(hist), (i - 1) * partSize + 1,
                                             min(i * partSize, N))
\* Four bytes written as 1 + 3 with part size 2: two full parts, both
\* flushed by the second Write, and nothing left for Close to upload.
C30_Witness ==
    /\ WritesThenClose(hist) /\ NoStoreFailure(requests)
    /\ partSize = 2 /\ Len(hist) = 3
    /\ Len(hist[1].p) = 1 /\ Len(hist[2].p) = 3
    /\ Len(Uploads(requests)) = 2 /\ Len(requests) = 3


\* C31: every Abort call sends exactly one request, an
\* AbortMultipartUpload, whatever the writer's state before it (open, with a
\* recorded error, closed, context cancelled), and leaves the writer closed,
\* also when the store refuses the request; it changes nothing else.
C31_AbortAlwaysAborts ==
    [][Called("Abort") =>
          /\ Len(NewRequests) = 1 /\ IsAbort(NewRequests[1])
          /\ closed'
          /\ Last(hist').err = Nil <=> NewRequests[1].outcome # "error"
          /\ <<buffer', partNumber', parts', err'>> = <<buffer, partNumber, parts, err>>]_vars
\* Abort was called on a cancelled writer after a Close that had failed and
\* aborted already, and the store refused this second abort.
C31_Witness ==
    /\ Len(hist) >= 2
    /\ \E i \in 1..(Len(hist) - 1) : hist[i].op = "Close" /\ hist[i].err # Nil
    /\ Last(hist).op = "Abort" /\ Last(hist).ctx /\ Last(hist).err # Nil
    /\ closed /\ err # Nil
    /\ AbortsIn(requests) = 2 /\ Last(requests).outcome = "error"


\* C32: a Read sends at most one range request, and sends one only when the
\* leftover buffer is empty and the cursor is before the end of the
\* requested range. A Read that finds the leftover buffer non-empty returns
\* its first min(len(p), len(leftover)) bytes with no error, keeps the rest
\* in order, leaves the cursor where it was and sends no request.
C32_LeftoverServedWithoutFetch ==
    [][ReadMade =>
          /\ NewFetches \in {0, 1}
          /\ NewFetches = 1 => csBuffer = <<>> /\ currentOffset < offset + size
          /\ csBuffer # <<>> =>
                LET n == min(Last(reads').b, Len(csBuffer))
                IN  /\ NewFetches = 0
                    /\ Last(reads').err = Nil
                    /\ Last(reads').data = SubSeq(csBuffer, 1, n)
                    /\ csBuffer' = SubSeq(csBuffer, n + 1, Len(csBuffer))
                    /\ currentOffset' = currentOffset /\ eof' = eof]_vars
\* A chunk of three bytes was fetched for a destination of one byte; the
\* second Read took one byte from the leftover and one byte is still kept.
C32_Witness ==
    /\ Len(reads) = 2 /\ Len(fetches) = 1 /\ fetches[1].ok
    /\ fetches[1].end - fetches[1].start = 2
    /\ reads[1].b = 1 /\ reads[2].b = 1
    /\ reads[2].err = Nil /\ Len(reads[2].data) = 1
    /\ Len(csBuffer) = 1


\* C33: between calls the buffer never holds more than partSize bytes,
\* whatever calls were made and whichever uploads failed; after a Write
\* that returned no error it holds fewer than partSize bytes.
C33_BufferWithinPartSize ==
    /\ Len(buffer) <= partSize
    /\ (hist # <<>> /\ Last(hist).op = "Write" /\ Last(hist).err = Nil)
          => Len(buffer) < partSize
\* A Write of three bytes with part size 2 returned nil: one part was
\* flushed and one byte is buffered.
C33_Witness ==
    /\ hist # <<>> /\ Last(hist).op = "Write" /\ Last(hist).err = Nil
    /\ partSize = 2 /\ Len(Last(hist).p) = 3
    /\ Len(buffer) = 1 /\ UploadsIn(requests) = 1


\* C34: once the Read calls have returned all size bytes of the range,
\* every further Read returns no bytes and end-of-stream, sends no range
\* request and leaves the cursor where it is.
C34_EndOfStreamIsFinal ==
    [][(ReadMade /\ Len(Delivered(reads)) = size) =>
          /\ Last(reads').data = <<>> /\ Last(reads').err = EOF
          /\ fetches' = fetches
          /\ currentOffset' = currentOffset
          /\ csBuffer' = <<>>]_vars
\* A range of three bytes was delivered and two more Reads both returned
\* end-of-stream.
C34_Witness ==
    /\ size = 3 /\ Delivered(reads) = RequestedRange
    /\ Len(reads) >= 3
    /\ reads[Len(reads)].err = EOF /\ reads[Len(reads) - 1].err = EOF
    /\ currentOffset = offset + size


\* An UploadPart request the store refused or answered without entity tag.
FailedUpload(r) == IsUpload(r) /\ r.outcome # "ok"
\* C35: after a call in which an UploadPart request failed (transport error
\* or no entity tag), the buffer still holds the bytes of that request, the
\* counter is still the number the request was sent under, and the
\* completed parts hold no entry for that number: they are the parts
\* recorded before the request, all with an entity tag.
C35_FailedUploadChangesNothing ==
    [][\A j \in 1..Len(NewRequests) :
          FailedUpload(NewRequests[j]) =>
              /\ buffer' = NewRequests[j].body
              /\ partNumber' = NewRequests[j].num
              /\ Len(parts') = NewRequests[j].num - 1
              /\ \A i \in 1..Len(parts') :
                    /\ parts'[i].PartNumber # NewRequests[j].num
                    /\ parts'[i].ETag # NoETag
              /\ Last(hist').err # Nil]_vars
\* The second part came back without entity tag: one part is recorded, the
\* counter is 2 and the buffer is still full.
C35_Witness ==
    /\ requests # <<>> /\ IsUpload(Last(requests)) /\ Last(requests).outcome = "noETag"
    /\ Last(requests).num = 2 /\ partNumber = 2 /\ Len(parts) = 1
    /\ buffer = Last(requests).body /\ Len(buffer) = partSize


\* C36: after an AbortMultipartUpload, or a CompleteMultipartUpload that
\* succeeded, the store receives no UploadPart and no
\* CompleteMultipartUpload for the session; it receives at most one
\* CompleteMultipartUpload, and that one lists at least one part and was
\* sent with the buffer empty (the writer is closed from then on and its
\* buffer stays empty).
C36_NothingAfterTermination ==
    /\ \A j \in 1..Len(requests) :
          (IsAbort(requests[j]) \/ CompletedAt(requests, j)) =>
              \A k \in (j + 1)..Len(requests) :
                  ~IsUpload(requests[k]) /\ ~IsComplete(requests[k])
    /\ CompletesIn(requests) <= 1
    /\ \A j \in 1..Len(requests) :
          IsComplete(requests[j]) =>
              /\ requests[j].parts # <<>>
              /\ buffer = <<>> /\ closed
\* A Close completed the upload; the Write and the second Close that
\* followed sent nothing to the store.
C36_Witness ==
    /\ Len(hist) = 4 /\ hist[2].op = "Close" /\ hist[2].err = Nil
    /\ hist[3].op = "Write" /\ Len(hist[3].p) > 0 /\ hist[4].op = "Close"
    /\ CompletesIn(requests) = 1 /\ IsComplete(Last(requests))


RECURSIVE UploadedBytes(_)
\* The sizes of the parts the store accepted, summed.
UploadedBytes(reqs) ==
    IF reqs = <<>> THEN 0
    ELSE UploadedBytes(SubSeq(reqs, 1, Len(reqs) - 1))
         + (IF AcceptedUpload(Last(reqs)) /\ Last(reqs).outcome = "ok"
            THEN Len(Last(reqs).body) ELSE 0)
\* C37: in every state the byte counts returned by the Write calls, those
\* returned with an error included, add up to the bytes of the accepted
\* parts plus the bytes in the buffer; a Write that returned no error
\* returned len(p).
C37_ByteAccounting ==
    /\ TotalAccepted(hist) = UploadedBytes(requests) + Len(buffer)
    /\ \A i \in 1..Len(hist) :
          (hist[i].op = "Write" /\ hist[i].err = Nil) => hist[i].n = Len(hist[i].p)
\* A Write of three bytes returned 2 and an error: its part was refused and
\* the two bytes are in the buffer; the third was never taken.
C37_Witness ==
    /\ Len(hist) = 1 /\ hist[1].op = "Write" /\ hist[1].err # Nil
    /\ Len(hist[1].p) = 3 /\ hist[1].n = 2
    /\ Len(buffer) = 2 /\ UploadedBytes(requests) = 0 /\ Len(requests) = 1


\* C38: a caller that keeps calling Read, the store refusing only finitely
\* many fetches, is eventually told end-of-stream, having been given
\* exactly the size bytes of the range; on the way every Read that returns
\* neither an error nor end-of-stream returns at least one byte, and the
\* cursor never moves backwards nor past offset + size.
C38_ReadingTerminates ==
    /\ <>(SawEOF /\ Delivered(reads) = RequestedRange)
    /\ [][ReadMade =>
            /\ Last(reads').err = Nil => Len(Last(reads').data) >= 1
            /\ currentOffset' >= currentOffset
            /\ currentOffset' <= offset + size]_vars
\* The whole object was read in chunks of one byte, one fetch refused on
\* the way, and end-of-stream was returned.
C38_Witness ==
    /\ SawEOF /\ Delivered(reads) = RequestedRange
    /\ size = ObjLen /\ chunkSize = 1
    /\ FailedFetches(fetches) = 1
    /\ Len(reads) = size + 2


\* The constructor's session exists: the store answered
\* CreateMultipartUpload with an upload id.
SessionCreated(calls) ==
    \E i \in 1..Len(calls) : calls[i].op = "CreateMultipartUpload" /\ calls[i].outcome = "ok"
\* C39: when NewCompressedS3Writer returns an error after its session was
\* created (a compression value it does not know, or a compressor that
\* could not be built), it returns no writer and the last thing it sent to
\* the store is the one AbortMultipartUpload of that session; it sent no
\* UploadPart and no CompleteMultipartUpload. A successful construction
\* sends no abort.
C39_FailedConstructionAborts ==
    made.returned =>
        /\ (made.err # "nil" /\ SessionCreated(made.calls)) =>
              /\ made.writer = NoWriterMade
              /\ Len(made.calls) = 2 /\ IsAbort(made.calls[2])
        /\ \A i \in 1..Len(made.calls) :
              ~IsUpload(made.calls[i]) /\ ~IsComplete(made.calls[i])
        /\ made.err = "nil" => \A i \in 1..Len(made.calls) : ~IsAbort(made.calls[i])
\* A compression value that is none of the three was refused after the
\* session had been created, and the session was aborted.
C39_Witness ==
    /\ made.returned /\ made.err = "unsupported compression type"
    /\ compressionType = UnknownKind
    /\ Len(made.calls) = 2 /\ made.calls[1].outcome = "ok" /\ IsAbort(made.calls[2])


====
